---- MODULE Spec2Model ----
(***************************************************************************)
(* Model of the upb fast decoder (src/upb/decode_fast.c).                  *)
(*                                                                         *)
(* The decoder is a chain of tail calls: fastdecode_dispatch reads a tag,  *)
(* selects a slot of the layout's fasttable and calls the slot's parser;   *)
(* the parser consumes its field and calls dispatch again.  One action of  *)
(* the model is one such call.  Sub-messages recurse through               *)
(* fastdecode_delimited; the model keeps the C call stack in `stack`.      *)
(*                                                                         *)
(* Memory is modelled with integer addresses.  The input buffer, the       *)
(* 32-byte patch buffer and the arena are byte arrays at distinct bases;   *)
(* messages and arrays are typed heap objects named by an index.           *)
(* A uint64_t is a tuple of 8 bytes, least significant first.              *)
(***************************************************************************)
EXTENDS Integers, Sequences, FiniteSets, TLC

(***************************************************************************)
(* Bit and byte arithmetic                                                 *)
(***************************************************************************)
RECURSIVE BitXor(_, _, _)
BitXor(a, b, n) ==
  IF n = 0 THEN 0
  ELSE (((a % 2) + (b % 2)) % 2) + 2 * BitXor(a \div 2, b \div 2, n - 1)

RECURSIVE BitAnd(_, _, _)
BitAnd(a, b, n) ==
  IF n = 0 THEN 0
  ELSE ((a % 2) * (b % 2)) + 2 * BitAnd(a \div 2, b \div 2, n - 1)

Min(a, b) == IF a < b THEN a ELSE b
Max(a, b) == IF a > b THEN a ELSE b

\* uint64_t as 8 little-endian bytes.
U64Zero == <<0, 0, 0, 0, 0, 0, 0, 0>>
U64Ones == <<255, 255, 255, 255, 255, 255, 255, 255>>
U64OfByte(b) == <<b, 0, 0, 0, 0, 0, 0, 0>>

\* The 8-tuple whose i-th byte is F(i).
Tuple8(F(_)) == <<F(1), F(2), F(3), F(4), F(5), F(6), F(7), F(8)>>

\* a + b modulo 2^64, added in groups of three bytes
U64Add(a, b) ==
  LET W(v, i) == v[i] + 256 * v[i + 1] + 65536 * (IF i < 7 THEN v[i + 2] ELSE 0)
      lo == W(a, 1) + W(b, 1)
      mid == W(a, 4) + W(b, 4) + (lo \div (2 ^ 24))
      hi == W(a, 7) + W(b, 7) + (mid \div (2 ^ 24))
      F(i) == CASE i <= 3 -> (lo \div (256 ^ (i - 1))) % 256
                [] i <= 6 -> (mid \div (256 ^ (i - 4))) % 256
                [] OTHER -> (hi \div (256 ^ (i - 7))) % 256
  IN Tuple8(F)

\* a << sh modulo 2^64, 0 <= sh < 64
U64Shl(a, sh) ==
  LET q == sh \div 8
      r == sh % 8
      At(i) == IF i >= 1 THEN a[i] ELSE 0
      F(i) == ((At(i - q) * (2 ^ r)) % 256) + ((At(i - q - 1) * (2 ^ r)) \div 256)
  IN Tuple8(F)

\* a >> 1
U64Shr1(a) ==
  LET F(i) == (a[i] \div 2) + (IF i < 8 THEN (a[i + 1] % 2) * 128 ELSE 0)
  IN Tuple8(F)

U64Xor(a, b) == LET F(i) == BitXor(a[i], b[i], 8) IN Tuple8(F)

\* (uint64_t)byte - 1, which is 2^64 - 1 for byte = 0
U64ByteMinus1(byte) == IF byte = 0 THEN U64Ones ELSE U64OfByte(byte - 1)

\* The low n bytes of a value, as memcpy(dst, &val, n) stores them.
LowBytes(v, n) == SubSeq(v, 1, n)

\* Zero-extend a byte string to a uint64_t.
U64OfBytes(bs) == LET F(i) == IF i <= Len(bs) THEN bs[i] ELSE 0 IN Tuple8(F)

(***************************************************************************)
(* Address space                                                           *)
(***************************************************************************)
NULL == 0
\* What a word of memory never written holds: any value.
Indeterminate == -1
InBase == 1073741824
PatchBase == InBase + 1048576
ArenaBase == InBase + 2097152
PatchLen == 32
Slop == 16


(***************************************************************************)
(* Memory.  A state record s carries the input buffer s.buf (at InBase),   *)
(* the patch buffer s.patch (at PatchBase) and the arena bytes s.amem.     *)
(***************************************************************************)
InInput(s, a) == a >= InBase /\ a < InBase + Len(s.buf)
InPatch(s, a) == a >= PatchBase /\ a < PatchBase + PatchLen

\* The byte at address a; an address outside every buffer reads as 0 and is
\* reported by Touch.
Mem(s, a) ==
  IF InInput(s, a) THEN s.buf[a - InBase + 1]
  ELSE IF InPatch(s, a) THEN s.patch[a - PatchBase + 1]
  ELSE IF a \in DOMAIN s.amem THEN s.amem[a]
  ELSE 0

RECURSIVE MemBytes(_, _, _)
MemBytes(s, a, n) ==
  IF n <= 0 THEN <<>>
  ELSE IF n = 1 THEN <<Mem(s, a)>>
  ELSE MemBytes(s, a, n \div 2) \o MemBytes(s, a + (n \div 2), n - (n \div 2))

\* A read of n bytes at a is inside the buffer being decoded.
ReadOK(s, a, n) ==
  \/ n = 0
  \/ (InInput(s, a) /\ InInput(s, a + n - 1))
  \/ (InPatch(s, a) /\ InPatch(s, a + n - 1))

\* Record a read of n bytes at address a.
Touch(s, a, n) == IF ReadOK(s, a, n) THEN s ELSE [s EXCEPT !.oob = TRUE]

(***************************************************************************)
(* Primitive readers                                                       *)
(***************************************************************************)
fastdecode_loadtag(s, ptr) == Mem(s, ptr) + 256 * Mem(s, ptr + 1)

fastdecode_checktag(data, tagbytes) ==
  IF tagbytes = 1 THEN (data.lo % 256) = 0 ELSE data.lo = 0

fastdecode_tagmatch(tag, data, tagbytes) ==
  IF tagbytes = 1 THEN (tag % 256) = (data.lo % 256) ELSE tag = data.lo

\* Result: ptr = NULL on failure; size as accumulated so far; last = one past
\* the last byte read.  `size` has the continuation bit of the first byte set.
RECURSIVE longsize_loop(_, _, _, _)
longsize_loop(s, ptr, size, i) ==
  LET byte == Mem(s, ptr) IN
  IF i = 3 THEN
    IF byte >= 8 THEN [ptr |-> NULL, size |-> size, last |-> ptr + 1]
    ELSE [ptr |-> ptr + 1, size |-> size + (byte - 1) * (2 ^ 28),
          last |-> ptr + 1]
  ELSE
    LET sz == size + (byte - 1) * (2 ^ (7 + 7 * i)) IN
    IF byte < 128 THEN [ptr |-> ptr + 1, size |-> sz, last |-> ptr + 1]
    ELSE longsize_loop(s, ptr + 1, sz, i + 1)

\* Variant: the sign-extended first byte is not masked to eight bits.
fastdecode_longsize_signed(s, ptr, size) == longsize_loop(s, ptr, size, 0)

fastdecode_longsize(s, ptr, size) == longsize_loop(s, ptr, size % 256, 0)

\* len is a C int converted to size_t: a negative len becomes a value above
\* 2^63, and then either uptr + len wraps below uptr or it exceeds uend.
BoundsFail(ptr, len, end, pad) ==
  IF len < 0 THEN TRUE ELSE len > (end + pad) - ptr

\* Variant: the check is made against `end` itself.
fastdecode_boundscheck_exact(ptr, len, end) == BoundsFail(ptr, len, end, 0)

fastdecode_boundscheck(ptr, len, end) == BoundsFail(ptr, len, end, Slop)

\* Variant: the check without slop lets a region end in the slop bytes.
fastdecode_boundscheck2_slop(ptr, len, end) == BoundsFail(ptr, len, end, Slop)

fastdecode_boundscheck2(ptr, len, end) == BoundsFail(ptr, len, end, 0)

\* One pass of the loop of fastdecode_varint64 over the byte at c.last, with
\* c.val accumulated so far; c.i < 0 once the loop has been left.
varint64_pass(s, c) ==
  LET ptr == c.last
      byte == Mem(s, ptr)
  IN IF c.i = 8 THEN
       IF byte > 1 THEN [ptr |-> NULL, val |-> c.val, last |-> ptr + 1, i |-> -1]
       ELSE [ptr |-> ptr + 1,
             val |-> U64Add(c.val, U64Shl(U64ByteMinus1(byte), 63)),
             last |-> ptr + 1, i |-> -1]
     ELSE [ptr |-> ptr + 1,
           val |-> U64Add(c.val, U64Shl(U64ByteMinus1(byte), 7 + 7 * c.i)),
           last |-> ptr + 1,
           i |-> IF byte < 128 THEN -1 ELSE c.i + 1]

RECURSIVE varint64_loop(_, _)
varint64_loop(s, c) ==
  IF c.i >= 0 THEN varint64_loop(s, varint64_pass(s, c))
  ELSE [ptr |-> c.ptr, val |-> c.val, last |-> c.last]

fastdecode_varint64(s, ptr) ==
  LET b0 == Mem(s, ptr) IN
  IF b0 >= 128
    THEN varint64_loop(s, [ptr |-> ptr + 1, val |-> U64OfByte(b0),
                           last |-> ptr + 1, i |-> 0])
    ELSE [ptr |-> ptr + 1, val |-> U64OfByte(b0), last |-> ptr + 1]

\* Variant: zigzag values are stored as they came.
fastdecode_munge_plain(val, valbytes, zigzag) ==
  IF valbytes = 1 THEN U64OfByte(IF val # U64Zero THEN 1 ELSE 0) ELSE val

\* The stored bytes of a decoded varint.
fastdecode_munge(val, valbytes, zigzag) ==
  IF valbytes = 1 THEN U64OfByte(IF val # U64Zero THEN 1 ELSE 0)
  ELSE IF zigzag THEN
    IF valbytes = 4 THEN
      LET n == U64OfBytes(LowBytes(val, 4))
          h == U64Shr1(n)
      IN IF (n[1] % 2) = 1 THEN U64Xor(h, U64Ones) ELSE h
    ELSE
      LET h == U64Shr1(val)
      IN IF (val[1] % 2) = 1 THEN U64Xor(h, U64Ones) ELSE h
  ELSE val


(***************************************************************************)
(* Heap values.  A message field or array element holds one of:            *)
(*   zero   - zero-initialised memory                                      *)
(*   uninit - memory never written                                         *)
(*   num    - b = the stored bytes of a scalar                             *)
(*   str    - a string view: a = data pointer, n = size                    *)
(*   arr    - a = upb_array*                                               *)
(*   msg    - a = upb_msg*                                                 *)
(***************************************************************************)
ZeroVal == [k |-> "zero", a |-> 0, n |-> 0, b |-> <<>>]
UninitVal == [k |-> "uninit", a |-> 0, n |-> 0, b |-> <<>>]
NumVal(bs) == [k |-> "num", a |-> 0, n |-> 0, b |-> bs]
StrVal(p, sz) == [k |-> "str", a |-> p, n |-> sz, b |-> <<>>]
ArrVal(id) == [k |-> "arr", a |-> id, n |-> 0, b |-> <<>>]
MsgVal(id) == [k |-> "msg", a |-> id, n |-> 0, b |-> <<>>]

\* Destinations: a field of a message, or element i (from 0) of an array.
FldDst(m, ofs) == [k |-> "fld", m |-> m, ofs |-> ofs, arr |-> 0, i |-> 0]
ElemDst(arr, i) == [k |-> "elem", m |-> 0, ofs |-> 0, arr |-> arr, i |-> i]
NoFarr == [arr |-> 0, end |-> 0]

\* sizeof(upb_msg*): the bytes fastdecode_submsg reads from its slot.
SizeofPtr == 8

\* A destination computed from a NULL buffer ("null") designates no object.
\* *dst
Load(s, dst) ==
  IF dst.k = "fld" THEN s.msgs[dst.m].f[dst.ofs]
  ELSE IF dst.k = "null" THEN UninitVal
  ELSE s.arrs[dst.arr].data[dst.i + 1]

\* The k low bytes of n, least significant first.
RECURSIVE IntBytes(_, _)
IntBytes(n, k) ==
  IF k = 0 THEN <<>> ELSE <<n % 256>> \o IntBytes(n \div 256, k - 1)

\* The address of message id, as decode_newmsg_ceil returned it.  Addresses of
\* the model lie below 2^31; those of an arena above 4 GiB (arena.high) have
\* non-zero bytes 5..8 in addition.
MsgAddr(s, id) == s.arena.at[id - 1]

\* The content of an 8-byte slot that held `old` after a store of v.  A
\* scalar of 1 or 4 bytes replaces the low bytes only: over a pointer to a
\* message it leaves the pointer (the bytes stored are those of the pointer),
\* a number (the bytes of the pointer that remain are zero), or bytes
\* 5..8 or 2..8 of the pointer above the number, marked by a = the message.
Over(s, old, v) ==
  IF v.k = "num" /\ Len(v.b) < SizeofPtr /\ old.k = "msg" THEN
    LET p == MsgAddr(s, old.a)
        w == Len(v.b)
    IN IF v.b = IntBytes(p, w) THEN old
       ELSE IF ~s.arena.high /\ IntBytes(p, 4) = IntBytes(p, w) \o IntBytes(0, 4 - w)
         THEN v
       ELSE [v EXCEPT !.a = old.a]
  ELSE IF v.k = "num" /\ Len(v.b) < SizeofPtr /\ old.k = "num" /\ old.a # 0
    THEN [v EXCEPT !.a = old.a]
  ELSE v

\* *dst = v.  A store past the capacity of an array is a heap overflow, a
\* store through a destination computed from NULL a stray write.
Store(s, dst, v) ==
  IF dst.k = "fld"
    THEN [s EXCEPT !.msgs[dst.m].f[dst.ofs] = Over(s, @, v)]
  ELSE IF dst.k = "null" THEN [s EXCEPT !.wild = TRUE]
  ELSE IF dst.i < s.arrs[dst.arr].size
    THEN [s EXCEPT !.arrs[dst.arr].data[dst.i + 1] = v]
    ELSE [s EXCEPT !.wild = TRUE]

\* Variant: the presence bits are never written to the message.
SyncHasbits_dropped(s, m, hasbits) == s

\* *(uint32_t*)msg |= hasbits
SyncHasbits(s, m, hasbits) ==
  [s EXCEPT !.msgs[m].has = @ \cup (hasbits \cap 0..31)]

(***************************************************************************)
(* Arena, arrays and messages (upb.h, msg.h)                               *)
(***************************************************************************)
ArenaBlock == 4096
SizeofArray == 32
SizeofMsgInternal == 8
SizeofStrview == 16

AlignMalloc(n) == ((n + 15) \div 16) * 16

_upb_arenahas(s) == s.arena.end - s.arena.ptr

\* Result: p = the allocation, s = the state after it.  When the current
\* block is too small the arena takes a new block from its allocator; an
\* arena that cannot grow (arena.grow = FALSE) returns NULL, and
\* arena.failed records it.
upb_arena_malloc(s, size) ==
  LET n == AlignMalloc(size) IN
  IF _upb_arenahas(s) >= n
    THEN [p |-> s.arena.ptr, s |-> [s EXCEPT !.arena.ptr = @ + n]]
  ELSE IF ~s.arena.grow
    THEN [p |-> NULL, s |-> [s EXCEPT !.arena.failed = TRUE]]
    ELSE LET base == s.arena.next
             blk == Max(n, ArenaBlock)
         IN [p |-> base,
             s |-> [s EXCEPT !.arena.ptr = base + n, !.arena.end = base + blk,
                             !.arena.next = base + blk + 16]]

\* The allocation _upb_array_new makes: the header and init_size elements.
ArrayNewAlloc(s, init_size, elem_size_lg2) ==
  upb_arena_malloc(s, SizeofArray + init_size * (2 ^ elem_size_lg2))

\* Result: arr = index of the new array, NULL when the allocation failed.
_upb_array_new(s, init_size, elem_size_lg2) ==
  LET r == ArrayNewAlloc(s, init_size, elem_size_lg2)
      a == [len |-> 0, size |-> init_size, lg2 |-> elem_size_lg2,
            data |-> [i \in 1..init_size |-> UninitVal]]
  IN IF r.p = NULL THEN [arr |-> NULL, s |-> r.s]
     ELSE [arr |-> Len(s.arrs) + 1,
           s |-> [r.s EXCEPT !.arrs = Append(@, a), !.allocs = @ + 1]]

\* upb_arena_realloc of the array's buffer to new_size elements.  Result: ok
\* (FALSE when it returned NULL) and the state, with the array moved to the
\* new buffer when ok.
ArrayRealloc(s, arr, new_size) ==
  LET old == s.arrs[arr]
      r == upb_arena_malloc(s, new_size * (2 ^ old.lg2))
  IN IF r.p = NULL THEN [ok |-> FALSE, s |-> r.s]
     ELSE [ok |-> TRUE,
           s |-> [r.s EXCEPT
                    !.arrs[arr].size = new_size,
                    !.arrs[arr].data =
                        [i \in 1..new_size |-> IF i <= old.size THEN old.data[i]
                                               ELSE UninitVal],
                    !.allocs = @ + 1]]

RECURSIVE GrowTo(_, _)
GrowTo(size, min) == IF size >= min THEN size ELSE GrowTo(size * 2, min)

\* Result: ok (the bool _upb_array_resize returns) and the state; the array
\* is left as it was when its buffer could not grow.
_upb_array_resize(s, arr, size) ==
  LET Grown(r) ==
        IF r.ok THEN [ok |-> TRUE, s |-> [r.s EXCEPT !.arrs[arr].len = size]]
        ELSE r
  IN IF s.arrs[arr].size < size
       THEN Grown(ArrayRealloc(s, arr, GrowTo(Max(s.arrs[arr].size, 4), size)))
       ELSE [ok |-> TRUE, s |-> [s EXCEPT !.arrs[arr].len = size]]

\* The arena after _upb_array_resize(arr, size), whatever became of the
\* array.
ResizeArena(s, arr, size) ==
  IF s.arrs[arr].size < size
    THEN upb_arena_malloc(s, GrowTo(Max(s.arrs[arr].size, 4), size)
                               * (2 ^ s.arrs[arr].lg2)).s.arena
    ELSE s.arena

(***************************************************************************)
(* Buffer limits (decode.int.h)                                            *)
(***************************************************************************)
\* Result: ptr = NULL when the scope is overrun, else the cursor in the patch
\* buffer, which now holds the last 16 bytes of the input.
decode_isdonefallback_inl(s, ptr, overrun) ==
  IF overrun < s.d.limit THEN
    LET t == Touch(s, s.d.end, 16)
        limit == s.d.limit - 16
    IN [ptr |-> PatchBase + overrun,
        s |-> [t EXCEPT
                 !.patch = [i \in 1..PatchLen |->
                              IF i <= 16 THEN Mem(s, s.d.end + i - 1) ELSE 0],
                 !.d.end = PatchBase + 16,
                 !.d.limit = limit,
                 !.d.limit_ptr = PatchBase + 16 + limit,
                 !.d.alias = FALSE]]
  ELSE [ptr |-> NULL, s |-> s]

\* Result: done, err (the fallback reported an error), the updated cursor
\* and state.
decode_isdone(s, ptr) ==
  LET overrun == ptr - s.d.end IN
  IF ptr < s.d.limit_ptr
    THEN [done |-> FALSE, err |-> FALSE, ptr |-> ptr, s |-> s]
  ELSE IF overrun = s.d.limit
    THEN [done |-> TRUE, err |-> FALSE, ptr |-> ptr, s |-> s]
  ELSE LET r == decode_isdonefallback_inl(s, ptr, overrun)
       IN [done |-> FALSE, err |-> r.ptr = NULL, ptr |-> r.ptr, s |-> r.s]

\* Result: delta, and the state with the new limit.
decode_pushlimit(s, ptr, size) ==
  LET limit == size + (ptr - s.d.end) IN
  [delta |-> s.d.limit - limit,
   s |-> [s EXCEPT !.d.limit = limit,
                   !.d.limit_ptr = s.d.end + Min(0, limit)]]

decode_poplimit(s, saved_delta) ==
  LET limit == s.d.limit + saved_delta IN
  [s EXCEPT !.d.limit = limit, !.d.limit_ptr = s.d.end + Min(0, limit)]


(***************************************************************************)
(* The layout under decode: one message type whose sub-messages have the   *)
(* same type.  layout (a field of the state) selects the numeric type of   *)
(* the numeric fields and whether their repeated slots hold the packed or  *)
(* the unpacked parser.                                                    *)
(***************************************************************************)
WT_VARINT == 0
WT_64BIT == 1
WT_DELIMITED == 2
WT_32BIT == 5

\* The bytes of the tag of field fn with wire type wt, as a little-endian
\* uint16_t (fields 16..31 have a two-byte tag).
TagOf(fn, wt) ==
  IF fn < 16 THEN fn * 8 + wt
  ELSE (128 + (fn % 16) * 8 + wt) + 256 * (fn \div 16)

TagBytesOf(fn) == IF fn < 16 THEN 1 ELSE 2

Parser(fn, card, valbytes, zigzag, tagbytes, ceil) ==
  [fn |-> fn, card |-> card, valbytes |-> valbytes, zigzag |-> zigzag,
   tagbytes |-> tagbytes, ceil |-> ceil]

GenericParser == Parser("generic", "s", 0, FALSE, 1, 0)

FieldData(lo, sub, hb, caseofs, ofs) ==
  [lo |-> lo, sub |-> sub, hb |-> hb, caseofs |-> caseofs, ofs |-> ofs]

\* The wire type a numeric parser expects.
NumWT(fn, card, valbytes) ==
  IF card = "p" THEN WT_DELIMITED
  ELSE IF fn = "varint" THEN WT_VARINT
  ELSE IF valbytes = 4 THEN WT_32BIT ELSE WT_64BIT

NumSlot(lay, fld, card, hb, caseofs, ofs) ==
  [parser |-> Parser(lay.fn, card, lay.valbytes, lay.zigzag,
                     TagBytesOf(fld), 0),
   data |-> FieldData(TagOf(fld, NumWT(lay.fn, card, lay.valbytes)),
                      0, hb, caseofs, ofs)]

StrSlot(fld, card, hb, caseofs, ofs) ==
  [parser |-> Parser("string", card, SizeofStrview, FALSE, TagBytesOf(fld), 0),
   data |-> FieldData(TagOf(fld, WT_DELIMITED), 0, hb, caseofs, ofs)]

SubSlot(fld, card, ceil, hb, caseofs, ofs) ==
  [parser |-> Parser("submsg", card, SizeofPtr, FALSE, TagBytesOf(fld), ceil),
   data |-> FieldData(TagOf(fld, WT_DELIMITED), 0, hb, caseofs, ofs)]

MsgSize == 128
CaseOfs == 4
FieldOffsets == {4, 8, 16, 24, 40, 48, 56, 64, 80, 88, 96, 104, 120}

RepCard(lay) == IF lay.packed THEN "p" ELSE "r"

\* table->fasttable[idx]
FastTable(lay, idx) ==
  CASE idx = 1 -> NumSlot(lay, 1, RepCard(lay), 0, 0, 8)
    [] idx = 2 -> NumSlot(lay, 2, "s", 0, 0, 16)
    [] idx = 3 -> StrSlot(3, "s", 1, 0, 24)
    [] idx = 4 -> StrSlot(4, "r", 0, 0, 40)
    [] idx = 5 -> SubSlot(5, "s", 192, 2, 0, 48)
    [] idx = 6 -> SubSlot(6, "r", -1, 0, 0, 56)
    [] idx = 7 -> NumSlot(lay, 7, "o", 7, CaseOfs, 64)
    [] idx = 8 -> SubSlot(8, "o", 192, 8, CaseOfs, 64)
    [] idx = 16 -> NumSlot(lay, 16, RepCard(lay), 0, 0, 80)
    [] idx = 17 -> StrSlot(17, "r", 0, 0, 88)
    [] idx = 18 -> SubSlot(18, "r", -1, 0, 0, 96)
    [] idx = 19 -> StrSlot(19, "s", 3, 0, 104)
    [] idx = 20 -> NumSlot(lay, 20, "s", 4, 0, 120)
    [] OTHER -> [parser |-> GenericParser, data |-> FieldData(0, 0, 0, 0, 0)]

(***************************************************************************)
(* Observation of the presence bits.  obs.hb.parsed holds <<message, bit>> *)
(* for every singular field a parser has taken; an event records, at a     *)
(* point of the code, the bits of the message parsed so far that are not   *)
(* in its presence word (pending) and the local hasbits value (held).      *)
(***************************************************************************)
PendingBits(s, m) ==
  {p[2] : p \in {q \in s.obs.hb.parsed : q[1] = m}} \ s.msgs[m].has

HbEvent(s, kind, card, m, hasbits) ==
  [s EXCEPT !.obs.hb[kind] = [seen |-> TRUE, card |-> card,
                              pending |-> PendingBits(s, m),
                              held |-> hasbits]]

(***************************************************************************)
(* Control transfers                                                       *)
(***************************************************************************)
\* fastdecode_err: the decode is abandoned.
fastdecode_err(s) == [s EXCEPT !.pc = "err"]

\* Variant: the hand-over skips the first tag byte.
RETURN_GENERIC_consumed(s) ==
  [s EXCEPT !.pc = "generic", !.data = FieldData(0, 0, 0, 0, 0),
            !.ptr = @ + 1]

\* RETURN_GENERIC: the field is handed to the generic decoder with the
\* arguments of the parser and data = 0.
RETURN_GENERIC(s) ==
  [s EXCEPT !.pc = "generic", !.data = FieldData(0, 0, 0, 0, 0)]

\* table->fasttable[idx].field_parser(UPB_PARSE_ARGS) for a slot that holds
\* fastdecode_generic: the generic decoder is called with the arguments of
\* the dispatch, data = field_data ^ tag.
CallGeneric(s) == [s EXCEPT !.pc = "generic"]

\* A parser function returns ptr to its caller: the caller of the decode,
\* or fastdecode_delimited inside a sub-message parser.
ReturnPtr(s, ptr) ==
  [s EXCEPT !.ptr = ptr, !.pc = IF s.stack = <<>> THEN "done" ELSE "subret"]

\* Tail call of fastdecode_dispatch.
CallDispatch(s, ptr, hasbits) ==
  [s EXCEPT !.ptr = ptr, !.hasbits = hasbits, !.pc = "dispatch"]

\* Variant: four bits of field number select the slot.
SlotIndex_4bit(tag) == BitAnd(tag, 120, 8) \div 8

\* size_t idx = (tag & 0xf8) >> 3
SlotIndex(tag) == BitAnd(tag, 248, 8) \div 8

fastdecode_tagdispatch(s, ptr, hasbits, tag) ==
  LET idx == SlotIndex(tag)
      slot == FastTable(s.layout, idx)
  IN [s EXCEPT !.ptr = ptr, !.hasbits = hasbits, !.pc = "parser",
               !.parser = slot.parser,
               !.data = [slot.data EXCEPT !.lo = BitXor(@, tag, 16)],
               !.obs.hb.passed = hasbits,
               !.obs.disp = [seen |-> TRUE, tag |-> tag,
                             parser |-> slot.parser,
                             lo |-> BitXor(slot.data.lo, tag, 16)]]

fastdecode_isdonefallback(s, ptr, hasbits, overrun) ==
  LET r == decode_isdonefallback_inl(s, ptr, overrun) IN
  IF r.ptr = NULL THEN fastdecode_err(s)
  ELSE fastdecode_tagdispatch(Touch(r.s, r.ptr, 2), r.ptr, hasbits,
                              fastdecode_loadtag(r.s, r.ptr))

fastdecode_dispatch(s) ==
  IF s.ptr >= s.d.limit_ptr THEN
    LET overrun == s.ptr - s.d.end IN
    IF overrun = s.d.limit
      THEN ReturnPtr(HbEvent(SyncHasbits(s, s.msg, s.hasbits), "scope", "",
                             s.msg, s.hasbits),
                     s.ptr)
      ELSE fastdecode_isdonefallback(s, s.ptr, s.hasbits, overrun)
  ELSE fastdecode_tagdispatch(Touch(s, s.ptr, 2), s.ptr, s.hasbits,
                              fastdecode_loadtag(s, s.ptr))

(***************************************************************************)
(* Singular, oneof and repeated field handling                             *)
(***************************************************************************)
CtzBytes(valbytes) ==
  CASE valbytes = 1 -> 0 [] valbytes = 2 -> 1 [] valbytes = 4 -> 2
    [] valbytes = 8 -> 3 [] valbytes = 16 -> 4

\* farr->arr->size = new_size; farr->arr->data = tagptr(NULL): an array of
\* capacity new_size without a buffer, none of its elements readable.
NullBuffer(s, arr, new_size) ==
  [s EXCEPT !.arrs[arr].size = new_size, !.arrs[arr].data = <<>>]

\* Result: the state and the re-anchored dst and farr.
\* Variant: the array grows by its initial capacity instead of doubling.
fastdecode_resizearr_linear(s, dst, farr, valbytes) ==
  IF dst.i = farr.end THEN
    LET new_size == s.arrs[farr.arr].size + 8
        Moved(r) ==
          [s |-> IF r.ok THEN r.s ELSE NullBuffer(r.s, farr.arr, new_size),
           dst |-> IF r.ok THEN dst ELSE [dst EXCEPT !.k = "null"],
           farr |-> [farr EXCEPT !.end = new_size]]
    IN Moved(ArrayRealloc(s, farr.arr, new_size))
  ELSE [s |-> s, dst |-> dst, farr |-> farr]

\* The result of upb_arena_realloc is not tested: when it is NULL the array
\* is given the new size and the NULL buffer, and dst = NULL + old_size *
\* valbytes.
fastdecode_resizearr(s, dst, farr, valbytes) ==
  IF dst.i = farr.end THEN
    LET new_size == s.arrs[farr.arr].size * 2
        Moved(r) ==
          [s |-> IF r.ok THEN r.s ELSE NullBuffer(r.s, farr.arr, new_size),
           dst |-> IF r.ok THEN dst ELSE [dst EXCEPT !.k = "null"],
           farr |-> [farr EXCEPT !.end = new_size]]
    IN Moved(ArrayRealloc(s, farr.arr, new_size))
  ELSE [s |-> s, dst |-> dst, farr |-> farr]

fastdecode_commitarr(s, dst, farr) == [s EXCEPT !.arrs[farr.arr].len = dst.i]

\* Result: next in {"atlimit", "samefield", "otherfield", "err"}, where err is
\* the bounds fallback of decode_isdone abandoning the decode.
fastdecode_nextrepeated(s, dst0, ptr, farr, data, tagbytes) ==
  LET dst == [dst0 EXCEPT !.i = @ + 1]
      Tagged(r, tag) ==
        IF fastdecode_tagmatch(tag, data, tagbytes)
          THEN [next |-> "samefield", dst |-> dst, tag |-> tag, ptr |-> r.ptr,
                s |-> Touch(r.s, r.ptr, 2)]
          ELSE [next |-> "otherfield", dst |-> dst, tag |-> tag, ptr |-> r.ptr,
                s |-> fastdecode_commitarr(Touch(r.s, r.ptr, 2), dst, farr)]
      Checked(r) ==
        \* r: what decode_isdone returned
        IF r.err
          THEN [next |-> "err", dst |-> dst, tag |-> 0, ptr |-> ptr, s |-> r.s]
        ELSE IF ~r.done THEN Tagged(r, fastdecode_loadtag(r.s, r.ptr))
        ELSE [next |-> "atlimit", dst |-> dst, tag |-> 0, ptr |-> r.ptr,
              s |-> fastdecode_commitarr(r.s, dst, farr)]
  IN Checked(decode_isdone(s, ptr))

fastdecode_fieldmem(msg, data) == FldDst(msg, data.ofs)

\* Result: dst, and the updated data, hasbits, farr and state.
fastdecode_getfield(s, ptr, msg, data, hasbits, valbytes, card) ==
  CASE card = "s" ->
         [dst |-> fastdecode_fieldmem(msg, data), data |-> data,
          hasbits |-> hasbits \cup {data.hb}, farr |-> NoFarr,
          s |-> [s EXCEPT !.obs.hb.parsed = @ \cup {<<msg, data.hb>>}]]
    [] card = "o" ->
         [dst |-> fastdecode_fieldmem(msg, data), data |-> data,
          hasbits |-> hasbits, farr |-> NoFarr,
          s |-> [s EXCEPT !.msgs[msg].f[data.caseofs] =
                            NumVal(<<data.hb, 0, 0, 0>>)]]
    [] OTHER ->
         LET arr_p == s.msgs[msg].f[data.ofs]
             s1 == HbEvent(SyncHasbits(s, msg, hasbits), "array", "r", msg, {})
             n == IF arr_p.k = "arr"
                    THEN [arr |-> arr_p.a, s |-> s1]
                    ELSE _upb_array_new(s1, 8, CtzBytes(valbytes))
             s2 == IF arr_p.k = "arr" THEN n.s
                   ELSE [n.s EXCEPT !.msgs[msg].f[data.ofs] = ArrVal(n.arr)]
             a == s2.arrs[n.arr]
         IN IF n.arr = NULL
              \* _upb_array_ptr(farr->arr) and farr->arr->size on a NULL array
              THEN [dst |-> ElemDst(NULL, 0), data |-> data, hasbits |-> {},
                    farr |-> NoFarr, s |-> [n.s EXCEPT !.wild = TRUE]]
            ELSE [dst |-> ElemDst(n.arr, a.len),
                  data |-> FieldData(fastdecode_loadtag(s, ptr), 0, 0, 0, 0),
                  hasbits |-> {},
                  farr |-> [arr |-> n.arr, end |-> a.size],
                  s |-> Touch(s2, ptr, 2)]

\* Variant: the flip toggles the wrong wire-type bit.
fastdecode_flippacked_bit0(data) == [data EXCEPT !.lo = BitXor(@, 1, 16)]

fastdecode_flippacked(data) == [data EXCEPT !.lo = BitXor(@, 2, 16)]


(***************************************************************************)
(* fastdecode_delimited, split at the call of its callback.                *)
(***************************************************************************)
Int8(b) == IF b >= 128 THEN b - 256 ELSE b

LimitsOf(s) == [limit_ptr |-> s.d.limit_ptr, limit |-> s.d.limit,
                end |-> s.d.end]

\* Observations of what the primitive readers returned: r is the result of
\* fastdecode_longsize for the length prefix at address `at`, or the result
\* of fastdecode_varint64 for the varint at address `at`.
LenEvent(s, at, r) ==
  [s EXCEPT !.obs.rdlen = [seen |-> TRUE, at |-> at, ptr |-> r.ptr,
                           size |-> r.size]]

ReadEvent(s, at, r) ==
  [s EXCEPT !.obs.rd64 = [seen |-> TRUE, at |-> at, ptr |-> r.ptr,
                          val |-> r.val]]

\* From entry to the call of func.  Result: path in {"null", "fast", "slow"}
\* ("null": NULL is returned without calling func), the pointer handed to
\* func, the saved limits (fast path) or the delta (slow path), and the state.
delimited_enter(s, ptr0) ==
  LET ptr == ptr0 + 1
      len == Int8(Mem(s, ptr0))
      s0 == [Touch(s, ptr0, 1) EXCEPT
               !.obs.enter = [seen |-> TRUE, ptr0 |-> ptr0, called |-> FALSE,
                              entry |-> LimitsOf(s)]]
      none == [path |-> "null", ptr |-> NULL, saved_limit_ptr |-> 0,
               saved_limit |-> 0, delta |-> 0, entry |-> LimitsOf(s), s |-> s0]
  IN IF fastdecode_boundscheck2(ptr, len, s.d.limit_ptr) THEN
       LET r == IF len < 0 THEN fastdecode_longsize(s, ptr, len)
                ELSE [ptr |-> ptr, size |-> len, last |-> ptr]
           s1 == IF len < 0
                   THEN LenEvent(Touch(s0, ptr, r.last - ptr), ptr0, r)
                   ELSE Touch(s0, ptr, r.last - ptr)
       IN IF r.ptr = NULL THEN [none EXCEPT !.s = s1]
          ELSE IF (r.ptr - s.d.end) + r.size > s.d.limit
            THEN [none EXCEPT !.s = s1]
          ELSE LET pl == decode_pushlimit(s1, r.ptr, r.size)
               IN [path |-> "slow", ptr |-> r.ptr, saved_limit_ptr |-> 0,
                   saved_limit |-> 0, delta |-> pl.delta,
                   entry |-> LimitsOf(s), s |-> pl.s]
     ELSE [path |-> "fast", ptr |-> ptr,
           saved_limit_ptr |-> s.d.limit_ptr, saved_limit |-> s.d.limit,
           delta |-> 0, entry |-> LimitsOf(s),
           s |-> [s0 EXCEPT !.d.limit_ptr = ptr + len,
                            !.d.limit = (ptr + len) - s.d.end]]

\* From the return of func to the return of fastdecode_delimited.
\* Variant: the fast path restores limit_ptr but not limit.
delimited_leave_ptronly(s, e, ptr) ==
  LET t == IF e.path = "slow" THEN decode_poplimit(s, e.delta)
           ELSE [s EXCEPT !.d.limit_ptr = e.saved_limit_ptr]
  IN [t EXCEPT !.obs.delim = [path |-> e.path, entry |-> e.entry,
                              exit |-> LimitsOf(t), null |-> ptr = NULL]]

\* ptr is what func returned.
delimited_leave(s, e, ptr) ==
  LET t == IF e.path = "slow" THEN decode_poplimit(s, e.delta)
           ELSE [s EXCEPT !.d.limit_ptr = e.saved_limit_ptr,
                          !.d.limit = e.saved_limit]
  IN [t EXCEPT !.obs.delim = [path |-> e.path, entry |-> e.entry,
                              exit |-> LimitsOf(t), null |-> ptr = NULL]]

\* Observation of the limits when func is entered.
EnterCallback(s, e) ==
  [s EXCEPT !.obs.cb = [path |-> e.path, at |-> LimitsOf(s)],
            !.obs.enter.called = TRUE]

(***************************************************************************)
(* Varint fields                                                           *)
(***************************************************************************)
\* The parser functions the generator F passes as `unpacked` and `packed`.
F_varint_unpacked(P) == [P EXCEPT !.card = "r"]
F_varint_packed(P) == [P EXCEPT !.card = "p"]

\* `return packed(UPB_PARSE_ARGS)`: a call of another parser function.
CallParser(s, P, data) == [s EXCEPT !.parser = P, !.data = data]

\* The position of a parser in its loop: `again` tells that another pass
\* follows, from s, ptr, dst and farr; otherwise s is the state the parser
\* returns.
Again(s, ptr, dst, farr) ==
  [again |-> TRUE, s |-> s, ptr |-> ptr, dst |-> dst, farr |-> farr]

Return(c, s) == [c EXCEPT !.again = FALSE, !.s = s]

\* One pass from `again:` of fastdecode_unpackedvarint.
unpackedvarint_pass(c, data, hasbits) ==
  LET s == c.s
      ptr == c.ptr
      P == s.parser
      vp == ptr + P.tagbytes
      Repeated(rz, ret) ==
        \* ret: what fastdecode_nextrepeated returned
        CASE ret.next = "samefield" ->
               Again(ret.s, ret.ptr, ret.dst, rz.farr)
          [] ret.next = "otherfield" ->
               Return(c, fastdecode_tagdispatch(ret.s, ret.ptr, hasbits,
                                                ret.tag))
          [] ret.next = "atlimit" -> Return(c, ReturnPtr(ret.s, ret.ptr))
          [] OTHER -> Return(c, fastdecode_err(ret.s))
      Stored(rz, r, s2) ==
        \* s2: the state with the value stored
        IF P.card = "r"
          THEN Repeated(rz, fastdecode_nextrepeated(s2, rz.dst, r.ptr, rz.farr,
                                                    data, P.tagbytes))
          ELSE Return(c, CallDispatch(s2, r.ptr, hasbits))
      Read(rz, r, s1) ==
        \* r: what fastdecode_varint64 returned; s1: the state after its reads
        IF r.ptr = NULL THEN Return(c, fastdecode_err(s1))
        ELSE Stored(rz, r,
                    Store(s1, rz.dst,
                          NumVal(LowBytes(fastdecode_munge(r.val, P.valbytes,
                                                           P.zigzag),
                                          P.valbytes))))
      Decoded(rz, r) ==
        Read(rz, r, ReadEvent(Touch(rz.s, vp, r.last - vp), vp, r))
      Resized(rz) ==
        \* rz: the destination after fastdecode_resizearr
        Decoded(rz, fastdecode_varint64(rz.s, vp))
  IN Resized(IF P.card = "r"
               THEN fastdecode_resizearr(s, c.dst, c.farr, P.valbytes)
               ELSE [s |-> s, dst |-> c.dst, farr |-> c.farr])

\* The loop at `again:` of fastdecode_unpackedvarint.
RECURSIVE unpackedvarint_loop(_, _, _)
unpackedvarint_loop(c, data, hasbits) ==
  IF c.again
    THEN unpackedvarint_loop(unpackedvarint_pass(c, data, hasbits), data,
                             hasbits)
    ELSE c.s

unpackedvarint_again(s, ptr, dst0, farr0, data, hasbits) ==
  unpackedvarint_loop(Again(s, ptr, dst0, farr0), data, hasbits)

fastdecode_unpackedvarint(s) ==
  LET P == s.parser IN
  IF ~fastdecode_checktag(s.data, P.tagbytes) THEN
    IF P.card = "r"
       /\ fastdecode_checktag(fastdecode_flippacked(s.data), P.tagbytes)
      THEN CallParser(s, F_varint_packed(P), fastdecode_flippacked(s.data))
      ELSE RETURN_GENERIC(s)
  ELSE
    LET Field(g) ==
          \* g: what fastdecode_getfield returned
          IF g.s.wild THEN g.s
          ELSE unpackedvarint_again(g.s, s.ptr, g.dst, g.farr, g.data,
                                    g.hasbits)
    IN Field(fastdecode_getfield(s, s.ptr, s.msg, s.data, s.hasbits,
                                 P.valbytes, P.card))

\* Result: ptr (NULL on a malformed varint), abort (the bounds fallback
\* abandoned the decode) and the state.
topackedvarint_pass(c) ==
  LET s == c.s
      ptr == c.ptr
      dst0 == c.dst
      farr0 == c.farr
      P == s.parser
      Read(rz, r, s1) ==
        \* r: what fastdecode_varint64 returned; s1: the state after its reads
        IF r.ptr = NULL THEN [ptr |-> NULL, abort |-> FALSE, s |-> s1]
        ELSE Again(Store(s1, rz.dst,
                         NumVal(LowBytes(fastdecode_munge(r.val, P.valbytes,
                                                          P.zigzag),
                                         P.valbytes))),
                   r.ptr, [rz.dst EXCEPT !.i = @ + 1], rz.farr)
      Decoded(dn, rz, r) ==
        Read(rz, r, ReadEvent(Touch(rz.s, dn.ptr, r.last - dn.ptr), dn.ptr, r))
      Resized(dn, rz) == Decoded(dn, rz, fastdecode_varint64(rz.s, dn.ptr))
      Checked(dn) ==
        \* dn: what decode_isdone returned
        IF dn.err THEN [ptr |-> NULL, abort |-> TRUE, s |-> dn.s]
        ELSE IF dn.done THEN
          [ptr |-> dn.ptr, abort |-> FALSE,
           s |-> fastdecode_commitarr(dn.s, dst0, farr0)]
        ELSE Resized(dn, fastdecode_resizearr(dn.s, dst0, farr0, P.valbytes))
  IN Checked(decode_isdone(s, ptr))

RECURSIVE topackedvarint_loop(_)
topackedvarint_loop(c) ==
  IF "again" \in DOMAIN c THEN topackedvarint_loop(topackedvarint_pass(c))
  ELSE c

fastdecode_topackedvarint(s, ptr, dst0, farr0) ==
  topackedvarint_loop(Again(s, ptr, dst0, farr0))

fastdecode_packedvarint(s) ==
  LET P == s.parser IN
  IF ~fastdecode_checktag(s.data, P.tagbytes) THEN
    IF fastdecode_checktag(fastdecode_flippacked(s.data), P.tagbytes)
      THEN CallParser(s, F_varint_unpacked(P), fastdecode_flippacked(s.data))
      ELSE RETURN_GENERIC(s)
  ELSE
    LET Returned(g, e, c) ==
          \* c: what fastdecode_topackedvarint returned
          IF c.abort THEN fastdecode_err(c.s)
          ELSE IF c.ptr = NULL THEN fastdecode_err(delimited_leave(c.s, e, c.ptr))
          ELSE CallDispatch(delimited_leave(c.s, e, c.ptr), c.ptr, g.hasbits)
        Entered(g, e) ==
          \* e: the delimited region, entered
          IF e.path = "null" THEN fastdecode_err(e.s)
          ELSE Returned(g, e,
                        fastdecode_topackedvarint(EnterCallback(e.s, e), e.ptr,
                                                  g.dst, g.farr))
        Field(g) ==
          IF g.s.wild THEN g.s
          ELSE Entered(g, delimited_enter(g.s, s.ptr + P.tagbytes))
    IN Field(fastdecode_getfield(s, s.ptr, s.msg, s.data, s.hasbits,
                                 P.valbytes, "r"))

fastdecode_varint(s) ==
  IF s.parser.card = "p" THEN fastdecode_packedvarint(s)
  ELSE fastdecode_unpackedvarint(s)


(***************************************************************************)
(* Fixed fields                                                            *)
(***************************************************************************)
\* The generator F of the fixed parsers calls
\*   fastdecode_fixed(..., &upb_ppf.., &upb_prf..)
\* whose parameters are (unpacked, packed) in this order.
F_fixed_unpacked(P) == [P EXCEPT !.card = "p"]
F_fixed_packed(P) == [P EXCEPT !.card = "r"]

\* One pass from `again:` of fastdecode_unpackedfixed.
unpackedfixed_pass(c, data, hasbits) ==
  LET s == c.s
      ptr == c.ptr
      P == s.parser
      rz == IF P.card = "r"
              THEN fastdecode_resizearr(s, c.dst, c.farr, P.valbytes)
              ELSE [s |-> s, dst |-> c.dst, farr |-> c.farr]
      vp == ptr + P.tagbytes
      s1 == Touch(rz.s, vp, P.valbytes)
      s2 == Store(s1, rz.dst, NumVal(MemBytes(s, vp, P.valbytes)))
      np == vp + P.valbytes
  IN IF P.card = "r" THEN
       LET ret == fastdecode_nextrepeated(s2, rz.dst, np, rz.farr, data,
                                          P.tagbytes)
       IN CASE ret.next = "samefield" ->
                 Again(ret.s, ret.ptr, ret.dst, rz.farr)
            [] ret.next = "otherfield" ->
                 Return(c, fastdecode_tagdispatch(ret.s, ret.ptr, hasbits,
                                                  ret.tag))
            [] ret.next = "atlimit" -> Return(c, ReturnPtr(ret.s, ret.ptr))
            [] OTHER -> Return(c, fastdecode_err(ret.s))
     ELSE Return(c, CallDispatch(s2, np, hasbits))

\* The loop at `again:` of fastdecode_unpackedfixed.
RECURSIVE unpackedfixed_loop(_, _, _)
unpackedfixed_loop(c, data, hasbits) ==
  IF c.again
    THEN unpackedfixed_loop(unpackedfixed_pass(c, data, hasbits), data,
                            hasbits)
    ELSE c.s

unpackedfixed_again(s, ptr, dst0, farr0, data, hasbits) ==
  unpackedfixed_loop(Again(s, ptr, dst0, farr0), data, hasbits)

fastdecode_unpackedfixed(s) ==
  LET P == s.parser IN
  IF ~fastdecode_checktag(s.data, P.tagbytes) THEN
    IF P.card = "r"
       /\ fastdecode_checktag(fastdecode_flippacked(s.data), P.tagbytes)
      THEN CallParser(s, F_fixed_packed(P), fastdecode_flippacked(s.data))
      ELSE RETURN_GENERIC(s)
  ELSE
    LET Field(g) ==
          \* g: what fastdecode_getfield returned
          IF g.s.wild THEN g.s
          ELSE unpackedfixed_again(g.s, s.ptr, g.dst, g.farr, g.data,
                                   g.hasbits)
    IN Field(fastdecode_getfield(s, s.ptr, s.msg, s.data, s.hasbits,
                                 P.valbytes, P.card))

fastdecode_packedfixed(s) ==
  LET P == s.parser IN
  IF ~fastdecode_checktag(s.data, P.tagbytes) THEN
    IF fastdecode_checktag(fastdecode_flippacked(s.data), P.tagbytes)
      THEN CallParser(s, F_fixed_unpacked(P), fastdecode_flippacked(s.data))
      ELSE RETURN_GENERIC(s)
  ELSE
    LET p0 == s.ptr + P.tagbytes
        b0 == Mem(s, p0)
        r == IF b0 >= 128 THEN fastdecode_longsize(s, p0 + 1, b0)
             ELSE [ptr |-> p0 + 1, size |-> b0, last |-> p0 + 1]
        s1 == IF b0 >= 128 THEN LenEvent(Touch(s, p0, r.last - p0), p0, r)
              ELSE Touch(s, p0, r.last - p0)
        ptr == r.ptr
        size == r.size
    IN IF fastdecode_boundscheck(ptr, size, s.d.limit_ptr)
          \/ (size % P.valbytes) # 0
         THEN fastdecode_err(s1)
       ELSE
         LET arr_p == s1.msgs[s.msg].f[s.data.ofs]
             elems == size \div P.valbytes
             sa == HbEvent(s1, "array", "p", s.msg, s.hasbits)
             n == IF arr_p.k = "arr" THEN [arr |-> arr_p.a, s |-> sa]
                  ELSE _upb_array_new(sa, elems, CtzBytes(P.valbytes))
             s2 == IF arr_p.k = "arr"
                     THEN _upb_array_resize(n.s, n.arr, elems).s
                     ELSE [n.s EXCEPT !.msgs[s.msg].f[s.data.ofs] =
                                         ArrVal(n.arr)]
             \* memcpy(dst, ptr, size) into the buffer the array has: past
             \* its end when _upb_array_resize failed
             s3 == [s2 EXCEPT
                      !.arrs[n.arr].len = elems,
                      !.arrs[n.arr].data =
                         [i \in 1..s2.arrs[n.arr].size |->
                            IF i <= elems
                              THEN NumVal(MemBytes(s, ptr + (i - 1) * P.valbytes,
                                                   P.valbytes))
                              ELSE s2.arrs[n.arr].data[i]],
                      !.wild = @ \/ (elems > s2.arrs[n.arr].size)]
             \* the arena after _upb_array_new, p = NULL when it returned
             \* NULL, or after _upb_array_resize
             m == IF arr_p.k = "arr"
                    THEN [p |-> s.arena.ptr,
                          s |-> [sa EXCEPT
                                   !.arena = ResizeArena(sa, arr_p.a, elems)]]
                    ELSE ArrayNewAlloc(sa, elems, CtzBytes(P.valbytes))
         IN IF m.p = NULL THEN fastdecode_err(m.s)
            \* memcpy(dst, ptr, size) from outside every buffer, after the
            \* allocation; the array is not followed further
            ELSE IF ~ReadOK(s1, ptr, size) THEN Touch(m.s, ptr, size)
            ELSE CallDispatch(s3, ptr + size, s.hasbits)

fastdecode_fixed(s) ==
  IF s.parser.card = "p" THEN fastdecode_packedfixed(s)
  ELSE fastdecode_unpackedfixed(s)

(***************************************************************************)
(* String fields                                                           *)
(***************************************************************************)
\* memcpy(data, src, n) into the arena.
ArenaCopy(s, data, src, n) ==
  LET t == Touch(s, src, n) IN
  [t EXCEPT !.amem = [a \in (DOMAIN @) \cup (data..(data + n - 1)) |->
                        IF a >= data /\ a < data + n
                          THEN Mem(s, src + (a - data)) ELSE @[a]]]

\* Observation of a string view a parser has written: d->alias at that
\* moment, the address of the tag of the field, the view, the path that wrote
\* it, and the arena cursor before the field and now.
ViewEvent(s, dst, at, tagbytes, path, arena0) ==
  [s EXCEPT !.obs.view = [seen |-> TRUE, alias |-> s.d.alias, at |-> at,
                          tagbytes |-> tagbytes, v |-> Load(s, dst),
                          path |-> path, arena0 |-> arena0,
                          arena1 |-> s.arena.ptr]]

\* dst->size = size: the data word keeps what it held, which for memory
\* never written is indeterminate.
SetViewSize(s, dst, size) ==
  Store(s, dst, StrVal(IF Load(s, dst).k = "uninit" THEN Indeterminate
                       ELSE Load(s, dst).a,
                       size))
SetViewData(s, dst, data) == Store(s, dst, StrVal(data, Load(s, dst).n))

fastdecode_longstring(s, ptr0, hasbits, dst) ==
  LET b0 == Mem(s, ptr0)
      r == IF b0 >= 128 THEN fastdecode_longsize(s, ptr0 + 1, b0)
           ELSE [ptr |-> ptr0 + 1, size |-> b0, last |-> ptr0 + 1]
      s1 == IF b0 >= 128 THEN LenEvent(Touch(s, ptr0, r.last - ptr0), ptr0, r)
            ELSE Touch(s, ptr0, r.last - ptr0)
      ptr == r.ptr
      size == r.size
  IN IF fastdecode_boundscheck(ptr, size, s.d.limit_ptr)
       THEN fastdecode_err(SetViewSize(s1, dst, 0))
     ELSE IF s.d.alias
       THEN CallDispatch(ViewEvent(Store(s1, dst, StrVal(ptr, size)), dst,
                                   ptr0 - s.parser.tagbytes, s.parser.tagbytes,
                                   "long", s.arena.ptr),
                         ptr + size, hasbits)
     ELSE LET m == upb_arena_malloc(s1, size)
              s2 == ArenaCopy(m.s, m.p, ptr, size)
          IN IF m.p = NULL THEN fastdecode_err(m.s)
             \* memcpy(data, ptr, size) from outside every buffer
             ELSE IF ~ReadOK(s1, ptr, size) THEN Touch(m.s, ptr, size)
             ELSE
             CallDispatch(ViewEvent(Store(s2, dst, StrVal(m.p, size)), dst,
                                    ptr0 - s.parser.tagbytes,
                                    s.parser.tagbytes, "long", s.arena.ptr),
                          ptr + size, hasbits)

\* arena.head.ptr += copy; dst->data = data; memcpy(data, ptr, copy)
fastdecode_docopy(s, ptr, size, copy, data, dst) ==
  SetViewData(ArenaCopy([s EXCEPT !.arena.ptr = @ + copy], data, ptr, copy),
              dst, data)

\* The loops at `again:` of fastdecode_copystring and fastdecode_string.
RECURSIVE copystring_again(_, _, _, _, _, _)
RECURSIVE string_again(_, _, _, _, _, _)

copystring_again(s, ptr0, dst0, farr0, data, hasbits) ==
  LET P == s.parser
      size == Mem(s, ptr0 + P.tagbytes)
      ptr == ptr0 + P.tagbytes + 1
      Repeated(rz, ret) ==
        \* ret: what fastdecode_nextrepeated returned
        CASE ret.next = "samefield" ->
               copystring_again(ret.s, ret.ptr, ret.dst, rz.farr, data, hasbits)
          [] ret.next = "otherfield" ->
               fastdecode_tagdispatch(ret.s, ret.ptr, hasbits, ret.tag)
          [] ret.next = "atlimit" -> ReturnPtr(ret.s, ret.ptr)
          [] OTHER -> fastdecode_err(ret.s)
      Copied(rz, s2) ==
        IF P.card = "r"
          THEN Repeated(rz, fastdecode_nextrepeated(s2, rz.dst, ptr + size,
                                                    rz.farr, data, P.tagbytes))
          ELSE CallDispatch(s2, ptr + size, hasbits)
      next(rz, s2) ==
        \* s2: the state with the string copied
        Copied(rz, ViewEvent(s2, rz.dst, ptr0, P.tagbytes, "copy",
                             rz.s.arena.ptr))
      Sized(rz, s1) ==
        \* s1: the state with dst->size stored
        LET buf == s1.arena.ptr
            arena_has == _upb_arenahas(s1)
            common_has == Min(arena_has, (s1.d.end - ptr) + 16)
            \* the bytes the branch taken copies; 0: goto longstr
            copy == IF size <= 15 - P.tagbytes
                      THEN (IF arena_has < 16 THEN 0 ELSE 16)
                    ELSE IF size <= 32 THEN (IF common_has < 32 THEN 0 ELSE 32)
                    ELSE IF size <= 64 THEN (IF common_has < 64 THEN 0 ELSE 64)
                    ELSE IF size <= 128
                      THEN (IF common_has < 128 THEN 0 ELSE 128)
                    ELSE 0
        IN IF copy = 0
             THEN fastdecode_longstring(s1, ptr - 1, hasbits, rz.dst)
             ELSE next(rz,
                       IF copy = 16
                         THEN SetViewData(
                                ArenaCopy([s1 EXCEPT !.arena.ptr = @ + 16], buf,
                                          ptr - P.tagbytes - 1, 16),
                                rz.dst, buf + P.tagbytes + 1)
                         ELSE fastdecode_docopy(s1, ptr, size, copy, buf,
                                                rz.dst))
      Resized(rz) ==
        \* rz: the destination after fastdecode_resizearr
        Sized(rz, SetViewSize(Touch(rz.s, ptr0 + P.tagbytes, 1), rz.dst, size))
  IN Resized(IF P.card = "r"
               THEN fastdecode_resizearr(s, dst0, farr0, SizeofStrview)
               ELSE [s |-> s, dst |-> dst0, farr |-> farr0])

fastdecode_copystring(s) ==
  LET Field(g) ==
        \* g: what fastdecode_getfield returned
        IF g.s.wild THEN g.s
        ELSE copystring_again(g.s, s.ptr, g.dst, g.farr, g.data, g.hasbits)
  IN Field(fastdecode_getfield(s, s.ptr, s.msg, s.data, s.hasbits,
                               SizeofStrview, s.parser.card))

\* Observation of the bounce to the copy family in a repeated run: the array,
\* its len as committed, and the pointer and tag handed to the dispatch.
HopEvent(s, arr, ptr, tag) ==
  [s EXCEPT !.obs.hop = [seen |-> TRUE, arr |-> arr, len |-> s.arrs[arr].len,
                         ptr |-> ptr, tag |-> tag]]

string_again(s, ptr0, dst0, farr0, data, hasbits) ==
  LET P == s.parser
      size == Int8(Mem(s, ptr0 + P.tagbytes))
      ptr == ptr0 + P.tagbytes + 1
      Repeated(rz, ret) ==
        \* ret: what fastdecode_nextrepeated returned
        CASE ret.next = "samefield" ->
               IF ~ret.s.d.alias
                 THEN fastdecode_tagdispatch(
                        HopEvent(fastdecode_commitarr(ret.s, ret.dst, rz.farr),
                                 rz.farr.arr, ret.ptr, ret.tag),
                        ret.ptr, hasbits, ret.tag)
                 ELSE string_again(ret.s, ret.ptr, ret.dst, rz.farr, data,
                                   hasbits)
          [] ret.next = "otherfield" ->
               fastdecode_tagdispatch(ret.s, ret.ptr, hasbits, ret.tag)
          [] ret.next = "atlimit" -> ReturnPtr(ret.s, ret.ptr)
          [] OTHER -> fastdecode_err(ret.s)
      Checked(rz, s1) ==
        IF P.card = "r"
          THEN Repeated(rz, fastdecode_nextrepeated(s1, rz.dst, ptr + size,
                                                    rz.farr, data, P.tagbytes))
          ELSE CallDispatch(s1, ptr + size, hasbits)
      Viewed(rz, s1) ==
        \* s1: the state with the view stored
        IF fastdecode_boundscheck(ptr, size, s1.d.end)
          THEN fastdecode_longstring(s1, ptr - 1, hasbits, rz.dst)
          ELSE Checked(rz, ViewEvent(s1, rz.dst, ptr0, P.tagbytes, "alias",
                                     rz.s.arena.ptr))
      Resized(rz) ==
        \* rz: the destination after fastdecode_resizearr
        Viewed(rz, Store(Touch(rz.s, ptr0 + P.tagbytes, 1), rz.dst,
                         StrVal(ptr, size)))
  IN Resized(IF P.card = "r"
               THEN fastdecode_resizearr(s, dst0, farr0, SizeofStrview)
               ELSE [s |-> s, dst |-> dst0, farr |-> farr0])

\* The copy-family function the generator F passes as copyfunc.
F_string_copyfunc(P) == [P EXCEPT !.fn = "copystring"]

fastdecode_string(s) ==
  LET P == s.parser IN
  IF ~fastdecode_checktag(s.data, P.tagbytes) THEN RETURN_GENERIC(s)
  ELSE IF ~s.d.alias THEN CallParser(s, F_string_copyfunc(P), s.data)
  ELSE
    LET Field(g) ==
          \* g: what fastdecode_getfield returned
          IF g.s.wild THEN g.s
          ELSE string_again(g.s, s.ptr, g.dst, g.farr, g.data, g.hasbits)
    IN Field(fastdecode_getfield(s, s.ptr, s.msg, s.data, s.hasbits,
                                 SizeofStrview, P.card))


(***************************************************************************)
(* Message fields                                                          *)
(***************************************************************************)
\* Observation of an exit of fastdecode_submsg: the path taken, d->depth when
\* the parser was entered and d->depth now.
SubExit(s, how, depth0) ==
  [s EXCEPT !.obs.sub = [how |-> how, entry |-> depth0, exit |-> s.d.depth]]

ZeroMsg == [has |-> {}, f |-> [o \in FieldOffsets |-> ZeroVal]]

\* Result: msg = index of the new message.
decode_newmsg_ceil(s, msg_ceil_bytes) ==
  LET size == MsgSize + SizeofMsgInternal
      r == IF msg_ceil_bytes > 0 /\ _upb_arenahas(s) >= msg_ceil_bytes
             THEN [p |-> s.arena.ptr, s |-> [s EXCEPT !.arena.ptr = @ + size]]
             ELSE upb_arena_malloc(s, size)
  IN IF r.p = NULL
       \* memset(NULL, 0, size)
       THEN [msg |-> NULL, s |-> [r.s EXCEPT !.wild = TRUE]]
     ELSE [msg |-> Len(s.msgs) + 1,
           s |-> [r.s EXCEPT !.msgs = Append(@, ZeroMsg), !.newmsgs = @ + 1,
                             !.arena.at = Append(@, r.p + SizeofMsgInternal)]]

\* The 8 bytes of a slot read as upb_msg*: 0 for NULL, -1 for bytes that are
\* not a pointer to a message.  A number that left bytes of a pointer above
\* it (a # 0) is not NULL, whatever the number.
AsMsgPtr(v) ==
  CASE v.k = "msg" -> v.a
    [] v.k = "zero" -> NULL
    [] v.k = "num" ->
         IF v.a = 0 /\ \A i \in 1..Len(v.b) : v.b[i] = 0 THEN NULL ELSE -1
    [] v.k = "str" -> IF v.a = NULL THEN NULL ELSE -1
    [] OTHER -> -1

\* Variant: every occurrence gets a new message.
submsg_needs_new_always(card, old) == TRUE

\* "if (card == CARD_r || UPB_LIKELY(!submsg.msg))", old being *dst
submsg_needs_new(card, old) == card = "r" \/ old = NULL

\* From `again:` to the call of fastdecode_tosubmsg, which calls
\* fastdecode_dispatch on the sub-message with hasbits = 0.
submsg_again(s, ptr, dst0, farr0, data, hasbits, depth0) ==
  LET P == s.parser
      rz == IF P.card = "r"
              THEN fastdecode_resizearr(s, dst0, farr0, SizeofPtr)
              ELSE [s |-> s, dst |-> dst0, farr |-> farr0]
      old == IF P.card = "r" THEN NULL ELSE AsMsgPtr(Load(rz.s, rz.dst))
      nw == IF submsg_needs_new(P.card, old)
              THEN decode_newmsg_ceil(rz.s, P.ceil)
              ELSE [msg |-> old, s |-> rz.s]
      s1 == IF submsg_needs_new(P.card, old)
              THEN Store(nw.s, rz.dst, MsgVal(nw.msg)) ELSE nw.s
      e == delimited_enter(s1, ptr + P.tagbytes)
      frame == [msg |-> s.msg, hasbits |-> hasbits, data |-> data,
                parser |-> P, dst |-> rz.dst, farr |-> rz.farr,
                e |-> [e EXCEPT !.s = 0], depth0 |-> depth0]
  IN IF rz.dst.k = "null" THEN [rz.s EXCEPT !.wild = TRUE]
     ELSE IF nw.s.wild THEN nw.s
     ELSE IF e.path = "null" THEN SubExit(fastdecode_err(e.s), "err", depth0)
     \* fastdecode_tosubmsg decodes through bytes that are not a pointer to
     \* a message
     ELSE IF old = -1 THEN [e.s EXCEPT !.wild = TRUE]
     ELSE [HbEvent(EnterCallback(e.s, e), "submsg", P.card, s.msg, hasbits)
             EXCEPT
             !.stack = Append(@, frame), !.msg = nw.msg, !.ptr = e.ptr,
             !.hasbits = {}, !.pc = "dispatch"]

\* Variant: the budget is taken to be exhausted only below zero.
depth_exhausted_negative(s) == s.d.depth < 0

\* The test of "if (--d->depth == 0)", on the state after the decrement.
depth_exhausted(s) == s.d.depth = 0

fastdecode_submsg(s) ==
  LET P == s.parser IN
  IF ~fastdecode_checktag(s.data, P.tagbytes)
    THEN SubExit(RETURN_GENERIC(s), "generic", s.d.depth)
  ELSE
    LET s0 == [s EXCEPT !.d.depth = @ - 1] IN
    IF depth_exhausted(s0) THEN SubExit(fastdecode_err(s0), "err", s.d.depth)
    ELSE
      LET Field(g) ==
            \* g: what fastdecode_getfield returned
            IF g.s.wild THEN g.s
            ELSE submsg_again(IF P.card = "s"
                                THEN SyncHasbits(g.s, s.msg, g.hasbits)
                                ELSE g.s,
                              s.ptr, g.dst, g.farr, g.data,
                              IF P.card = "s" THEN {} ELSE g.hasbits,
                              s.d.depth)
      IN Field(fastdecode_getfield(s0, s.ptr, s.msg, s.data, s.hasbits,
                                   SizeofPtr, P.card))

\* fastdecode_submsg from the return of fastdecode_tosubmsg on.
\* Variant: the exits forget to give the nesting level back.
depth_restore_skipped(s) == s

\* "d->depth++" before each non-error exit.
depth_restore(s) == [s EXCEPT !.d.depth = @ + 1]

submsg_return(s) ==
  LET fr == s.stack[Len(s.stack)]
      P == fr.parser
      t == [delimited_leave(s, fr.e, s.ptr) EXCEPT
              !.stack = SubSeq(@, 1, Len(@) - 1), !.msg = fr.msg,
              !.parser = P, !.data = fr.data]
      up(x) == depth_restore(x)
  IN IF s.ptr = NULL \/ t.d.end_group # 0
       THEN SubExit(fastdecode_err(t), "err", fr.depth0)
     ELSE IF P.card = "r" THEN
       LET ret == fastdecode_nextrepeated(t, fr.dst, s.ptr, fr.farr, fr.data,
                                          P.tagbytes)
       IN CASE ret.next = "samefield" ->
                 submsg_again(ret.s, ret.ptr, ret.dst, fr.farr, fr.data,
                              fr.hasbits, fr.depth0)
            [] ret.next = "otherfield" ->
                 SubExit(fastdecode_tagdispatch(up(ret.s), ret.ptr, fr.hasbits,
                                                ret.tag),
                         "otherfield", fr.depth0)
            [] ret.next = "atlimit" ->
                 SubExit(ReturnPtr(up(ret.s), ret.ptr), "atlimit", fr.depth0)
            [] OTHER -> SubExit(fastdecode_err(ret.s), "err", fr.depth0)
     ELSE SubExit(CallDispatch(up(t), s.ptr, fr.hasbits), "next", fr.depth0)


(***************************************************************************)
(* Wire-format encoders, used to build the inputs of the decode            *)
(***************************************************************************)
RECURSIVE EncVarint(_)
EncVarint(n) ==
  IF n < 128 THEN <<n>> ELSE <<128 + (n % 128)>> \o EncVarint(n \div 128)

EncTag(fld, wt) ==
  IF fld < 16 THEN <<fld * 8 + wt>>
  ELSE <<128 + (fld % 16) * 8 + wt, fld \div 16>>

RECURSIVE Concat(_)
Concat(ss) == IF ss = <<>> THEN <<>> ELSE Head(ss) \o Concat(Tail(ss))

EncDelimited(fld, payload) ==
  EncTag(fld, WT_DELIMITED) \o EncVarint(Len(payload)) \o payload

(***************************************************************************)
(* The state of a decode                                                   *)
(***************************************************************************)
VARIABLES buf, patch, d, arena, amem, msgs, arrs, pc, ptr, msg, hasbits,
          data, parser, stack, layout, oob, wild, allocs, newmsgs, obs, sc

vars == <<buf, patch, d, arena, amem, msgs, arrs, pc, ptr, msg, hasbits,
          data, parser, stack, layout, oob, wild, allocs, newmsgs, obs, sc>>

Cur ==
  [buf |-> buf, patch |-> patch, d |-> d, arena |-> arena, amem |-> amem,
   msgs |-> msgs, arrs |-> arrs, pc |-> pc, ptr |-> ptr, msg |-> msg,
   hasbits |-> hasbits, data |-> data, parser |-> parser, stack |-> stack,
   layout |-> layout, oob |-> oob, wild |-> wild, allocs |-> allocs, newmsgs |-> newmsgs,
   obs |-> obs]

NoLimits == [limit_ptr |-> 0, limit |-> 0, end |-> 0]
NoHb == [seen |-> FALSE, card |-> "", pending |-> {}, held |-> {}]
NoObs ==
  [delim |-> [path |-> "none", entry |-> NoLimits, exit |-> NoLimits,
             null |-> FALSE],
   cb |-> [path |-> "none", at |-> NoLimits],
   sub |-> [how |-> "none", entry |-> 0, exit |-> 0],
   hb |-> [array |-> NoHb, submsg |-> NoHb, scope |-> NoHb, passed |-> {},
           parsed |-> {}],
   disp |-> [seen |-> FALSE, tag |-> 0, parser |-> GenericParser, lo |-> 0],
   enter |-> [seen |-> FALSE, ptr0 |-> 0, called |-> FALSE,
              entry |-> NoLimits],
   rdlen |-> [seen |-> FALSE, at |-> 0, ptr |-> 0, size |-> 0],
   hop |-> [seen |-> FALSE, arr |-> 0, len |-> 0, ptr |-> 0, tag |-> 0],
   rd64 |-> [seen |-> FALSE, at |-> 0, ptr |-> 0, val |-> U64Zero],
   view |-> [seen |-> FALSE, alias |-> FALSE, at |-> 0, tagbytes |-> 0,
             v |-> ZeroVal, path |-> "none", arena0 |-> 0, arena1 |-> 0]]

\* The state upb_decode sets up before it calls the fast decoder: an input of
\* at most 16 bytes is copied into the patch buffer and never aliased, a
\* longer one is decoded in place with its last 16 bytes behind `end`.
DecodeState(input, alias, depth, lay, arena_has) ==
  LET size == Len(input)
      small == size <= 16
      start == IF small THEN PatchBase ELSE InBase
      end == IF small THEN PatchBase + size ELSE InBase + size - 16
  IN [buf |-> IF small THEN <<>> ELSE input,
      patch |-> [i \in 1..PatchLen |->
                   IF small /\ i <= size THEN input[i] ELSE 0],
      d |-> [end |-> end, limit |-> IF small THEN 0 ELSE 16,
             limit_ptr |-> end, alias |-> (~small) /\ alias,
             depth |-> depth, end_group |-> 0],
      arena |-> [ptr |-> ArenaBase, end |-> ArenaBase + arena_has,
                 next |-> ArenaBase + 65536, grow |-> TRUE, failed |-> FALSE,
                 high |-> FALSE, at |-> <<>>],
      amem |-> [a \in {} |-> 0],
      msgs |-> <<ZeroMsg>>, arrs |-> <<>>,
      pc |-> "dispatch", ptr |-> start, msg |-> 1, hasbits |-> {},
      data |-> FieldData(0, 0, 0, 0, 0), parser |-> GenericParser,
      stack |-> <<>>, layout |-> lay, oob |-> FALSE, wild |-> FALSE,
      allocs |-> 0,
      newmsgs |-> 0, obs |-> NoObs]

Install(t) ==
  /\ buf' = t.buf /\ patch' = t.patch /\ d' = t.d /\ arena' = t.arena
  /\ amem' = t.amem /\ msgs' = t.msgs /\ arrs' = t.arrs /\ pc' = t.pc
  /\ ptr' = t.ptr /\ msg' = t.msg /\ hasbits' = t.hasbits /\ data' = t.data
  /\ parser' = t.parser /\ stack' = t.stack /\ layout' = t.layout
  /\ oob' = t.oob /\ wild' = t.wild /\ allocs' = t.allocs /\ newmsgs' = t.newmsgs
  /\ obs' = t.obs /\ sc' = sc

\* A read outside the buffer (oob), a store outside an array or the use of a
\* stray pointer (wild) is undefined behaviour.
Fin(t) == IF t.oob \/ t.wild THEN [t EXCEPT !.pc = "ub"] ELSE t

\* The generic decoder has been entered inside a sub-message on an end-group
\* tag (wire type 4) of one byte.
AtEndGroup(s) ==
  /\ s.pc = "generic" /\ s.stack # <<>>
  /\ Mem(s, s.ptr) < 128 /\ (Mem(s, s.ptr) % 8) = 4

\* It puts the hasbits it was handed into the presence word, records the
\* field number in d->end_group and returns the pointer past the tag to
\* fastdecode_tosubmsg.
generic_endgroup(s) ==
  [SyncHasbits(s, s.msg, s.hasbits) EXCEPT
     !.d.end_group = Mem(s, s.ptr) \div 8, !.ptr = @ + 1, !.pc = "subret"]

\* One call of a parser function or of fastdecode_dispatch, as a function of
\* the state: the step the actions below take.
StepOf(s) ==
  CASE s.pc = "dispatch" -> Fin(fastdecode_dispatch(s))
    [] s.pc = "subret" -> Fin(submsg_return(s))
    [] s.pc = "parser" /\ s.parser.fn = "varint" -> Fin(fastdecode_varint(s))
    [] s.pc = "parser" /\ s.parser.fn = "fixed" -> Fin(fastdecode_fixed(s))
    [] s.pc = "parser" /\ s.parser.fn = "string" -> Fin(fastdecode_string(s))
    [] s.pc = "parser" /\ s.parser.fn = "copystring" ->
         Fin(fastdecode_copystring(s))
    [] s.pc = "parser" /\ s.parser.fn = "submsg" -> Fin(fastdecode_submsg(s))
    [] s.pc = "parser" /\ s.parser.fn = "generic" -> CallGeneric(s)
    [] AtEndGroup(s) -> generic_endgroup(s)
    [] OTHER -> s

(***************************************************************************)
(* The decodes examined.  A scenario is an input, the decode options and   *)
(* the layout parameters, with the description it was built from.          *)
(***************************************************************************)
Lay(fn, valbytes, zigzag, packed) ==
  [fn |-> fn, valbytes |-> valbytes, zigzag |-> zigzag, packed |-> packed]

Scenario(fam, input, alias, depth, lay, arena_has, fld, n, wire, follow, aux) ==
  [fam |-> fam, input |-> input, alias |-> alias, depth |-> depth,
   lay |-> lay, arena_has |-> arena_has, fld |-> fld, n |-> n,
   wire |-> wire, follow |-> follow, aux |-> aux]

\* Bounds of the scenarios.
MaxRun == 33
ShortRun == 3
DefaultDepth == 4

U64Shr7(v) == U64Shr1(U64Shr1(U64Shr1(U64Shr1(U64Shr1(U64Shr1(U64Shr1(v)))))))

RECURSIVE EncVarintU64(_)
EncVarintU64(v) ==
  IF v[1] < 128 /\ (\A i \in 2..8 : v[i] = 0) THEN <<v[1]>>
  ELSE <<128 + (v[1] % 128)>> \o EncVarintU64(U64Shr7(v))

\* The values carried by the elements of a numeric run, in wire order.
Pool ==
  << IntBytes(3, 8), IntBytes(270, 8), IntBytes(86942, 8), IntBytes(0, 8),
     IntBytes(-1, 8), IntBytes(127, 8), IntBytes(128, 8),
     <<5, 0, 0, 0, 1, 0, 0, 0>>, IntBytes(2147483647, 8), IntBytes(-2, 8),
     <<0, 0, 0, 0, 0, 0, 0, 128>>, IntBytes(1, 8) >>

PoolVal(i) == Pool[((i - 1) % Len(Pool)) + 1]

NumLays ==
  { Lay("varint", 1, FALSE, p) : p \in BOOLEAN } \cup
  { Lay("varint", vb, zz, p) : vb \in {4, 8}, zz \in BOOLEAN, p \in BOOLEAN }
  \cup { Lay("fixed", vb, FALSE, p) : vb \in {4, 8}, p \in BOOLEAN }

\* The encoding of one value of the numeric type of the layout.
EncNum(lay, v) ==
  IF lay.fn = "varint" THEN EncVarintU64(v) ELSE LowBytes(v, lay.valbytes)

\* What the decoder is to store for it.
StoredNum(lay, v) ==
  IF lay.fn = "varint"
    THEN LowBytes(fastdecode_munge(v, lay.valbytes, lay.zigzag), lay.valbytes)
    ELSE LowBytes(v, lay.valbytes)

FollowBytes(lay, follow) ==
  CASE follow = "end" -> <<>>
    [] follow = "field" ->
         EncTag(2, NumWT(lay.fn, "s", lay.valbytes)) \o EncNum(lay, IntBytes(5, 8))
    [] follow = "unknown" -> EncTag(9, WT_VARINT) \o <<1>>

NumRunInput(lay, fld, n, wire, follow) ==
  (IF wire = "packed"
     THEN EncDelimited(fld, Concat([i \in 1..n |-> EncNum(lay, PoolVal(i))]))
     ELSE Concat([i \in 1..n |->
                    EncTag(fld, NumWT(lay.fn, "r", lay.valbytes))
                      \o EncNum(lay, PoolVal(i))]))
  \o FollowBytes(lay, follow)

\* Runs of up to ShortRun elements with every follower and both tag lengths,
\* and longer runs that end the input.
NumRuns ==
  { Scenario("numrun", NumRunInput(lay, fld, n, wire, follow), FALSE,
             DefaultDepth, lay, ArenaBlock, fld, n, wire, follow, <<>>) :
      lay \in NumLays, fld \in {1, 16}, n \in 1..ShortRun,
      wire \in {"unpacked", "packed"}, follow \in {"end", "field", "unknown"} }
  \cup
  { Scenario("numrun", NumRunInput(lay, 1, n, wire, "end"), FALSE,
             DefaultDepth, lay, ArenaBlock, 1, n, wire, "end", <<>>) :
      lay \in NumLays, n \in (ShortRun + 1)..MaxRun,
      wire \in {"unpacked", "packed"} }

\* The lengths of the strings of a run, in wire order, rotated by k.
LenPool == <<5, 0, 14, 20, 130, 13, 40, 128, 100, 127, 33, 65>>

LenAt(k, i) == LenPool[((i - 1 + k) % Len(LenPool)) + 1]

RECURSIVE PayloadFrom(_, _, _)
PayloadFrom(i, j, n) ==
  IF n = 0 THEN <<>>
  ELSE IF n = 1 THEN <<((i * 37 + j * 11) % 251) + 1>>
  ELSE PayloadFrom(i, j, n \div 2)
         \o PayloadFrom(i, j + (n \div 2), n - (n \div 2))

\* The payload of the i-th string of a run.
StrPayload(k, i) == PayloadFrom(i + k, 0, LenAt(k, i))

StrRunInput(fld, n, k, follow) ==
  Concat([i \in 1..n |-> EncDelimited(fld, StrPayload(k, i))])
  \o FollowBytes(Lay("varint", 4, FALSE, FALSE), follow)

MaxStrRun == 3
SmallArena == 8
V4 == Lay("varint", 4, FALSE, FALSE)

\* An arena block that has SmallArena bytes left once the array of a
\* repeated string field has been created in it.
TightArena == SizeofArray + 8 * SizeofStrview + SmallArena

\* Runs of a repeated string field (4, 17) and single occurrences of a
\* singular one (3, 19).
StrRuns ==
  { Scenario("strrun", StrRunInput(fld, n, k, follow), al, DefaultDepth, V4,
             ah, fld, n, "unpacked", follow, <<k>>) :
      fld \in {4, 17}, n \in 1..MaxStrRun, k \in 0..(Len(LenPool) - 1),
      follow \in {"end", "field", "unknown"}, al \in BOOLEAN,
      ah \in {ArenaBlock, SmallArena, TightArena} }
  \cup
  { Scenario("strone", StrRunInput(fld, 1, k, follow), al, DefaultDepth, V4,
             ah, fld, 1, "unpacked", follow, <<k>>) :
      fld \in {3, 19}, k \in 0..(Len(LenPool) - 1),
      follow \in {"end", "field"}, al \in BOOLEAN,
      ah \in {ArenaBlock, SmallArena} }

\* Sub-messages nested n levels deep through field fld; the outermost level
\* has sib occurrences of the field, and the innermost message holds a
\* varint and, for pad > 0, a string of pad bytes.
MaxInitDepth == 3
MaxSib == 2
Pads == {0, 20, 130}

RECURSIVE NestBody(_, _, _)
NestBody(fld, levels, pad) ==
  IF levels = 0
    THEN <<16, 5>> \o (IF pad > 0 THEN EncDelimited(3, PayloadFrom(1, 0, pad))
                       ELSE <<>>)
    ELSE EncDelimited(fld, NestBody(fld, levels - 1, pad)) \o <<16, 7>>

NestInput(fld, levels, sib, pad, follow) ==
  Concat([i \in 1..sib |-> EncDelimited(fld, NestBody(fld, levels - 1, pad))])
  \o FollowBytes(V4, follow)

Nests ==
  { Scenario("nest", NestInput(fld, n, sib, pad, follow), FALSE, dep, V4,
             ArenaBlock, fld, n, "unpacked", follow, <<sib, pad>>) :
      fld \in {5, 6, 8, 18}, n \in 1..(MaxInitDepth + 1),
      dep \in 1..MaxInitDepth, sib \in 1..MaxSib, pad \in Pads,
      follow \in {"end", "field", "unknown"} }

\* A tag that selects the slot of field fld but has another wire type,
\* followed by three bytes.
FastFields == {1, 2, 3, 4, 5, 6, 7, 8, 16, 17, 18, 19, 20}

Mismatches ==
  { Scenario("mismatch", EncTag(fld, wt) \o <<1, 0, 0>>, al, DefaultDepth,
             lay, ArenaBlock, fld, wt, "unpacked", "end", <<>>) :
      fld \in FastFields, wt \in 0..7, al \in BOOLEAN,
      lay \in {V4, Lay("fixed", 4, FALSE, TRUE), Lay("fixed", 8, FALSE, FALSE)} }

\* A numeric run whose last element is a varint of ten bytes with the
\* eleventh continuation pending (tenth byte = aux[1]).
BadVarint(b10) == <<255, 255, 255, 255, 255, 255, 255, 255, 255, b10>>

BadVarints ==
  { Scenario("badvarint",
             (IF wire = "packed"
                THEN EncDelimited(fld,
                       Concat([i \in 1..(n - 1) |-> EncNum(lay, PoolVal(i))])
                         \o BadVarint(b10))
                ELSE Concat([i \in 1..(n - 1) |->
                               EncTag(fld, WT_VARINT) \o EncNum(lay, PoolVal(i))])
                       \o EncTag(fld, WT_VARINT) \o BadVarint(b10))
               \o FollowBytes(lay, follow),
             FALSE, DefaultDepth, lay, ArenaBlock, fld, n, wire, follow,
             <<b10>>) :
      lay \in {l \in NumLays : l.fn = "varint"}, fld \in {1, 2, 16},
      n \in 1..ShortRun, wire \in {"unpacked", "packed"},
      b10 \in {1, 2, 128}, follow \in {"end", "field"} }

\* A length-delimited field whose length prefix has five bytes, the fifth
\* being b5 (a length prefix is malformed when b5 >= 8), followed by tail
\* bytes of payload.
LongLen(b1, b5) == <<128 + b1, 128, 128, 128, b5>>

BadLens ==
  { Scenario("badlen",
             EncTag(fld, WT_DELIMITED) \o LongLen(b1, b5)
               \o PayloadFrom(1, 0, tail),
             al, DefaultDepth, lay, ArenaBlock, fld, tail, "packed", "end",
             <<b1, b5>>) :
      fld \in {1, 3, 4, 5, 6, 16, 17, 19}, b1 \in {0, 4, 5}, b5 \in {0, 7, 8, 255},
      tail \in {4, 24}, al \in BOOLEAN,
      lay \in {Lay("varint", 4, FALSE, TRUE), Lay("fixed", 4, FALSE, TRUE),
               Lay("fixed", 8, FALSE, TRUE)} }

\* Every proper prefix of a message that holds one field of each kind.
MixedMessage ==
  <<16, 150, 1>> \o EncDelimited(3, PayloadFrom(2, 0, 6))
    \o EncDelimited(1, <<3, 142, 2>>) \o <<8, 9>>
    \o EncDelimited(5, <<16, 1>> \o EncDelimited(4, PayloadFrom(3, 0, 3)))
    \o EncDelimited(4, PayloadFrom(4, 0, 20))
    \o EncDelimited(6, EncDelimited(17, PayloadFrom(5, 0, 2)))
    \o EncDelimited(19, PayloadFrom(6, 0, 35))

Truncations ==
  { Scenario("trunc", SubSeq(MixedMessage, 1, n), al, DefaultDepth, lay,
             ah, 0, n, "unpacked", "end", <<>>) :
      n \in 0..Len(MixedMessage), al \in BOOLEAN,
      ah \in {ArenaBlock, SmallArena},
      lay \in {V4, Lay("varint", 4, FALSE, TRUE), Lay("fixed", 4, FALSE, TRUE)} }

\* Two singular fields (2: numeric, presence bit 0; 3: string, presence bit
\* 1) interleaved with one field X of another kind, in the order given by n:
\* 1: 2 X 3, 2: 2 3 X, 3: X 2 3, 4: 2 X X 3.
PresenceX(lay, fld, wire) ==
  CASE fld \in {5, 6, 8} -> EncDelimited(fld, FollowBytes(lay, "field"))
    [] fld = 1 -> NumRunInput(lay, 1, 2, wire, "end")
    [] fld = 4 -> EncDelimited(4, PayloadFrom(1, 0, 3))
    [] fld = 7 -> EncTag(7, NumWT(lay.fn, "s", lay.valbytes))
                    \o EncNum(lay, IntBytes(9, 8))
    [] OTHER -> FollowBytes(lay, "unknown")

PresenceInput(lay, fld, wire, n) ==
  LET A == FollowBytes(lay, "field")
      B == EncDelimited(3, PayloadFrom(2, 0, 2))
      X == PresenceX(lay, fld, wire)
  IN CASE n = 1 -> A \o X \o B
       [] n = 2 -> A \o B \o X
       [] n = 3 -> X \o A \o B
       [] OTHER -> A \o X \o X \o B

Presences ==
  { Scenario("presence", PresenceInput(lay, fld, wire, n), FALSE,
             DefaultDepth, lay, ArenaBlock, fld, n, wire, "end", <<>>) :
      lay \in {V4, Lay("fixed", 4, FALSE, TRUE), Lay("fixed", 8, FALSE, FALSE)},
      fld \in {1, 4, 5, 6, 7, 8, 9}, wire \in {"unpacked", "packed"},
      n \in 1..4 }

\* The first tag byte of a field with a two-byte tag followed by a second
\* byte b2 other than 1: the tag of another field that selects the same slot
\* (b2 < 128) or the start of a tag of three bytes or more.
ForeignTags ==
  { Scenario("foreign",
             <<EncTag(fld, FastTable(lay, fld).data.lo % 8)[1], b2, 1, 0, 0>>,
             al, DefaultDepth, lay, ArenaBlock, fld, b2, "unpacked", "end",
             <<>>) :
      fld \in {16, 17, 18, 19, 20}, b2 \in {0, 2, 3, 129}, al \in BOOLEAN,
      lay \in {V4, Lay("fixed", 4, FALSE, TRUE)} }

\* The same after the singular field 2, whose presence bit is then pending.
LateMismatches ==
  { Scenario("latemismatch",
             FollowBytes(lay, "field") \o EncTag(fld, wt) \o <<1, 0, 0>>,
             FALSE, DefaultDepth, lay, ArenaBlock, fld, wt, "unpacked", "end",
             <<>>) :
      fld \in FastFields, wt \in 0..7,
      lay \in {V4, Lay("fixed", 4, FALSE, TRUE)} }

\* n occurrences of a singular varint field (2 or 20) carrying the values
\* SingVals[aux[1]], SingVals[aux[1] + 1], ... in wire order.
SingVals == Pool \o <<IntBytes(150, 8)>>

SingVal(i) == SingVals[((i - 1) % Len(SingVals)) + 1]

Singulars ==
  { Scenario("sing",
             Concat([i \in 1..n |->
                       EncTag(fld, WT_VARINT) \o EncVarintU64(SingVal(i0 + i - 1))]),
             FALSE, DefaultDepth, lay, ArenaBlock, fld, n, "unpacked", "end",
             <<i0>>) :
      fld \in {2, 20}, n \in 1..ShortRun, i0 \in 1..Len(SingVals),
      lay \in {l \in NumLays : l.fn = "varint" /\ ~l.packed} }

\* Decodes into an arena that cannot take a new block, with arena_has bytes
\* left in its block.  n selects the input: 1, 2: an unpacked, a packed run
\* of GrowRun elements of field 1; 3: two packed chunks of field 1, of one
\* and of five elements; 4: a singular sub-message; 5: GrowRun repeated
\* sub-messages; 6: a string of 200 bytes; 7: GrowRun repeated strings; 8,
\* 9: field 1, a string, with a malformed length prefix; 10: a packed chunk
\* of field 1 and a second one with a malformed length prefix.
GrowRun == 9

Headrooms == {0, 16, 48, 64, 96, 160, 176, 304, 4096}

NoMemInput(lay, n) ==
  CASE n = 1 -> NumRunInput(lay, 1, GrowRun, "unpacked", "end")
    [] n = 2 -> NumRunInput(lay, 1, GrowRun, "packed", "end")
    [] n = 3 -> NumRunInput(lay, 1, 1, "packed", "end")
                  \o NumRunInput(lay, 1, 5, "packed", "end")
    [] n = 4 -> EncDelimited(5, FollowBytes(lay, "field"))
    [] n = 5 -> Concat([i \in 1..GrowRun |-> EncDelimited(6, <<>>)])
    [] n = 6 -> EncDelimited(3, PayloadFrom(1, 0, 200))
    [] n = 7 -> Concat([i \in 1..GrowRun |->
                          EncDelimited(4, PayloadFrom(i, 0, 2))])
    [] n = 8 -> EncTag(1, WT_DELIMITED) \o LongLen(4, 8)
                  \o PayloadFrom(1, 0, 4)
    [] n = 9 -> EncTag(3, WT_DELIMITED) \o LongLen(4, 8)
                  \o PayloadFrom(1, 0, 4)
    [] OTHER -> NumRunInput(lay, 1, 1, "packed", "end")
                  \o EncTag(1, WT_DELIMITED) \o LongLen(4, 8)
                  \o PayloadFrom(1, 0, 4)

NoMems ==
  { Scenario("nomem", NoMemInput(lay, n), FALSE, DefaultDepth, lay, ah, 0, n,
             "unpacked", "end", <<>>) :
      n \in 1..10, ah \in Headrooms,
      lay \in {V4, Lay("varint", 4, FALSE, TRUE), Lay("fixed", 4, FALSE, FALSE),
               Lay("fixed", 4, FALSE, TRUE)} }

\* One string of n bytes on a singular string field, n around the sizes
\* whose length prefix has two bytes.
BigLens == {127, 128, 129, 255, 256}

BigStrs ==
  { Scenario("bigstr", EncDelimited(fld, PayloadFrom(1, 0, n)), al,
             DefaultDepth, V4, ah, fld, n, "unpacked", "end", <<>>) :
      fld \in {3, 19}, n \in BigLens, al \in BOOLEAN,
      ah \in {ArenaBlock, SmallArena} }

\* w bytes of a varint: w - 1 bytes c and the byte last.
VarintSample(w, c, last) == [i \in 1..w |-> IF i < w THEN c ELSE last]

\* One varint of 1 to 10 bytes on the singular numeric field 2 or 20.
Readers ==
  { Scenario("reader", EncTag(fld, WT_VARINT) \o VarintSample(w, c, last),
             FALSE, DefaultDepth, lay, ArenaBlock, fld, w, "unpacked", "end",
             <<c, last>>) :
      fld \in {2, 20}, w \in 1..10, c \in {128, 129, 170, 255},
      last \in {0, 1, 2, 127, 129},
      lay \in {Lay("varint", 8, FALSE, FALSE), Lay("varint", 4, TRUE, FALSE)} }

\* A length prefix of 2 to 5 bytes on a packed field (1), a string field (3)
\* or a sub-message field (5), followed by four bytes of payload.
Prefixes ==
  { Scenario("prefix",
             EncTag(fld, WT_DELIMITED) \o VarintSample(w, c, last)
               \o PayloadFrom(1, 0, 4),
             al, DefaultDepth, lay, ArenaBlock, fld, w, "packed", "end",
             <<c, last>>) :
      fld \in {1, 3, 5}, w \in 2..5, c \in {128, 129, 255},
      last \in {0, 1, 7, 8, 127}, al \in {FALSE},
      lay \in {Lay("varint", 4, FALSE, TRUE), Lay("fixed", 4, FALSE, TRUE)} }

\* The body of the i-th occurrence of a sub-message field: field 2 = 5,
\* field 3 = a string of two bytes, field 20 = 9.
SubBody(i) ==
  CASE i = 1 -> <<16, 5>>
    [] i = 2 -> EncDelimited(3, PayloadFrom(2, 0, 2))
    [] OTHER -> EncTag(20, WT_VARINT) \o <<9>>

\* n occurrences of the sub-message field fld, each with its own body.
SubRuns ==
  { Scenario("subrun", Concat([i \in 1..n |-> EncDelimited(fld, SubBody(i))]),
             FALSE, DefaultDepth, V4, ah, fld, n, "unpacked", "end", <<>>) :
      fld \in {5, 6, 8, 18}, n \in 1..ShortRun, ah \in {ArenaBlock, SmallArena} }

\* A sub-message whose body is field 2 = 5 followed by an end-group tag of
\* field g, then by field 2 of the enclosing message.
Groups ==
  { Scenario("group",
             EncDelimited(fld, <<16, 5, g * 8 + 4>>) \o <<16, 7>>,
             FALSE, DefaultDepth, V4, ArenaBlock, fld, g, "unpacked", "end",
             <<>>) :
      fld \in {5, 6, 8, 18}, g \in {2, 5, 9} }

\* One packed fixed field that declares aux[1] bytes of payload and is
\* followed by aux[2] bytes; with n = 2 the field is the content of a
\* sub-message of field 5 that holds the first four of the declared bytes,
\* with n = 3 the field follows a packed occurrence of two elements.
PackedFixedInput(fld, n, declared, avail) ==
  LET head == EncTag(fld, WT_DELIMITED) \o EncVarint(declared) IN
  CASE n = 1 -> head \o PayloadFrom(1, 0, avail)
    [] n = 2 -> EncDelimited(5, head \o PayloadFrom(1, 0, 4))
                  \o PayloadFrom(2, 0, avail)
    [] OTHER -> EncDelimited(fld, PayloadFrom(3, 0, 16)) \o head
                  \o PayloadFrom(1, 0, avail)

PackedFixeds ==
  { Scenario("pfixed", PackedFixedInput(fld, n, declared, avail), FALSE,
             DefaultDepth, Lay("fixed", vb, FALSE, TRUE), ArenaBlock, fld, n,
             "packed", "end", <<declared, avail>>) :
      fld \in {1, 16}, n \in 1..3, vb \in {4, 8},
      declared \in {0, 4, 6, 8, 16, 24, 40, 200},
      avail \in {0, 4, 8, 24, 40} }

\* A repeated numeric field that occurs twice with a singular field between
\* the occurrences: n elements in the encoding of the layout, then aux[1]
\* elements in the encoding `wire`.
NumChunk(lay, fld, from, n, wire) ==
  IF wire = "packed"
    THEN EncDelimited(fld, Concat([i \in 1..n |->
                                     EncNum(lay, PoolVal(from + i))]))
    ELSE Concat([i \in 1..n |->
                   EncTag(fld, NumWT(lay.fn, "r", lay.valbytes))
                     \o EncNum(lay, PoolVal(from + i))])

Accums ==
  { Scenario("accum",
             NumChunk(lay, fld, 0, k, IF lay.packed THEN "packed" ELSE "unpacked")
               \o FollowBytes(lay, "field") \o NumChunk(lay, fld, k, m, wire),
             FALSE, DefaultDepth, lay, ArenaBlock, fld, k, wire, "end", <<m>>) :
      lay \in NumLays, fld \in {1, 16}, k \in 1..ShortRun, m \in 1..ShortRun,
      wire \in {"unpacked", "packed"} }

\* The numeric member 7 of the oneof with the n-th value of the pool, then
\* the sub-message member 8 of the same oneof holding field 2.
OneofSwaps ==
  { Scenario("oneofswap",
             EncTag(7, NumWT(lay.fn, "s", lay.valbytes)) \o EncNum(lay, PoolVal(n))
               \o EncDelimited(8, FollowBytes(lay, "field")),
             FALSE, DefaultDepth, lay, ah, 8, n, "unpacked", "end", <<>>) :
      lay \in {l \in NumLays : ~l.packed}, n \in 1..6,
      ah \in {ArenaBlock, SmallArena} }

\* The sub-message member 8 of the oneof, empty, then the numeric member 7
\* with the n-th value of the pool, then member 8 again, holding field 2
\* when follow = "field" and declaring 127 bytes that are not there when
\* follow = "trunc"; aux[1] = 1 places the arena above 4 GiB.
OneofReturns ==
  { Scenario("oneofreturn",
             EncDelimited(8, <<>>)
               \o EncTag(7, NumWT(lay.fn, "s", lay.valbytes))
               \o EncNum(lay, PoolVal(n))
               \o (IF follow = "trunc" THEN EncTag(8, WT_DELIMITED) \o <<127>>
                   ELSE EncDelimited(8, FollowBytes(lay, follow))),
             FALSE, DefaultDepth, lay, ArenaBlock, 8, n, "unpacked", follow,
             <<high>>) :
      lay \in {l \in NumLays : ~l.packed}, n \in 1..6,
      follow \in {"end", "field", "trunc"}, high \in {0, 1} }

Scenarios ==
  OneofReturns \cup OneofSwaps \cup Accums \cup PackedFixeds \cup NumRuns \cup StrRuns \cup Nests \cup Mismatches \cup BadVarints
    \cup BadLens \cup Truncations \cup Presences \cup ForeignTags
    \cup LateMismatches \cup Singulars \cup NoMems \cup BigStrs
    \cup Readers \cup Prefixes \cup SubRuns \cup Groups

\* An arena over a fixed block, without an allocator to grow from.
FixedArena(s) == [s EXCEPT !.arena.grow = FALSE]

\* An arena whose block the allocator placed above 4 GiB.
HighArena(s) == [s EXCEPT !.arena.high = TRUE]

\* The state the decode of scenario c starts from.
InitState(c) ==
  IF c.fam = "nomem"
    THEN FixedArena(DecodeState(c.input, c.alias, c.depth, c.lay, c.arena_has))
  ELSE IF c.fam = "oneofreturn" /\ c.aux = <<1>>
    THEN HighArena(DecodeState(c.input, c.alias, c.depth, c.lay, c.arena_has))
    ELSE DecodeState(c.input, c.alias, c.depth, c.lay, c.arena_has)

Init ==
  /\ sc \in Scenarios
  /\ LET t == InitState(sc)
     IN /\ buf = t.buf /\ patch = t.patch /\ d = t.d /\ arena = t.arena
        /\ amem = t.amem /\ msgs = t.msgs /\ arrs = t.arrs /\ pc = t.pc
        /\ ptr = t.ptr /\ msg = t.msg /\ hasbits = t.hasbits /\ data = t.data
        /\ parser = t.parser /\ stack = t.stack /\ layout = t.layout
        /\ oob = t.oob /\ wild = t.wild /\ allocs = t.allocs
        /\ newmsgs = t.newmsgs /\ obs = t.obs

\* fastdecode_dispatch, called by a parser or by fastdecode_tosubmsg.
Dispatch == pc = "dispatch" /\ Install(Fin(fastdecode_dispatch(Cur)))

\* upb_p{s,o,r,p}{b1,v4,v8,z4,z8}_{1,2}bt
VarintParser ==
  pc = "parser" /\ parser.fn = "varint" /\ Install(Fin(fastdecode_varint(Cur)))

\* upb_p{s,o,r,p}f{4,8}_{1,2}bt
FixedParser ==
  pc = "parser" /\ parser.fn = "fixed" /\ Install(Fin(fastdecode_fixed(Cur)))

\* upb_p{s,o,r}s_{1,2}bt
StringParser ==
  pc = "parser" /\ parser.fn = "string" /\ Install(Fin(fastdecode_string(Cur)))

\* upb_c{s,o,r}s_{1,2}bt
CopyStringParser ==
  /\ pc = "parser" /\ parser.fn = "copystring"
  /\ Install(Fin(fastdecode_copystring(Cur)))

\* upb_p{s,o,r}m_{1,2}bt_max*b up to the call of fastdecode_tosubmsg
SubmsgParser ==
  pc = "parser" /\ parser.fn = "submsg" /\ Install(Fin(fastdecode_submsg(Cur)))

\* ... and from its return on.
SubmsgReturn == pc = "subret" /\ Install(Fin(submsg_return(Cur)))

\* A slot without a fast parser holds the generic decoder.
GenericSlot ==
  pc = "parser" /\ parser.fn = "generic" /\ Install(CallGeneric(Cur))

\* What follows undefined behaviour is not determined by the source: the
\* process crashes, or the decode goes on with stray data to any end, the
\* hand-over to the generic decoder among them.
UndefinedBehaviour ==
  /\ pc = "ub"
  /\ \E out \in {"crash", "err", "done", "generic"} :
       Install([Cur EXCEPT !.pc = out])

\* The generic decoder, entered inside a sub-message on an end-group tag.
GenericEndGroup == AtEndGroup(Cur) /\ Install(generic_endgroup(Cur))

Next ==
  \/ Dispatch \/ VarintParser \/ FixedParser \/ StringParser
  \/ CopyStringParser \/ SubmsgParser \/ SubmsgReturn \/ GenericSlot
  \/ GenericEndGroup \/ UndefinedBehaviour

Spec == Init /\ [][Next]_vars

\* A step of the decoder can be taken: ENABLED <<Next>>_vars, written out
\* from the guards of the actions.
Running ==
  \/ pc \in {"dispatch", "parser", "subret", "ub"}
  \/ /\ pc = "generic" /\ stack # <<>>
     /\ Mem(Cur, ptr) < 128 /\ (Mem(Cur, ptr) % 8) = 4

\* A call that has been made runs on: the decoder is sequential code without
\* a point at which it waits.  This is weak fairness of Next, WF_vars(Next),
\* with its ENABLED written as Running.
LiveSpec == Spec /\ ([]<>(~Running) \/ []<><<Next>>_vars)

(***************************************************************************)
(* Observations of the decoded message                                     *)
(***************************************************************************)
Terminal == pc \in {"done", "err", "generic", "crash"}
Finished == pc \in {"done", "generic"}

\* The offset of the repeated fields of the layout, by field number.
OfsOf(fld) ==
  CASE fld = 1 -> 8 [] fld = 16 -> 80 [] fld = 4 -> 40 [] fld = 17 -> 88
    [] fld = 6 -> 56 [] fld = 18 -> 96

\* The committed elements of the repeated field fld of message m.
Elems(m, fld) ==
  LET v == msgs[m].f[OfsOf(fld)] IN
  IF v.k = "arr" THEN SubSeq(arrs[v.a].data, 1, arrs[v.a].len) ELSE <<>>

Capacity(m, fld) ==
  LET v == msgs[m].f[OfsOf(fld)] IN IF v.k = "arr" THEN arrs[v.a].size ELSE 0

\* The bytes a string view designates.
ViewBytes(v) == MemBytes(Cur, v.a, v.n)

\* The views of a sequence of elements, each with the bytes it designates.
Strings(es) ==
  [i \in 1..Len(es) |-> IF es[i].k = "str" /\ es[i].n >= 0
                          THEN ViewBytes(es[i]) ELSE <<-1>>]

ExpectedStrs == [i \in 1..sc.n |-> StrPayload(sc.aux[1], i)]

ExpectedNums == [i \in 1..sc.n |-> NumVal(StoredNum(sc.lay, PoolVal(i)))]

\* The number of doublings that take a capacity of 8 to at least n.
RECURSIVE Doublings(_, _)
Doublings(cap, n) == IF cap >= n THEN 0 ELSE 1 + Doublings(cap * 2, n)


(***************************************************************************)
(* C1: a run of N encodings of one unpacked repeated varint or fixed       *)
(* field, decoded by the unpacked parser into a message whose array is     *)
(* null, ends with an array of length N holding the N values in wire       *)
(* order, after one array creation at capacity 8 and one reallocation      *)
(* for each doubling of the capacity that N requires.                      *)
(***************************************************************************)
NativeUnpackedRun ==
  sc.fam = "numrun" /\ sc.wire = "unpacked" /\ ~sc.lay.packed

C1_RunFusion ==
  (NativeUnpackedRun /\ Terminal) =>
    /\ Finished
    /\ Elems(1, sc.fld) = ExpectedNums
    /\ allocs = 1 + Doublings(8, sc.n)
    /\ Capacity(1, sc.fld) = 8 * (2 ^ Doublings(8, sc.n))

C1_Witness ==
  /\ NativeUnpackedRun /\ pc = "done" /\ sc.n = 32 /\ allocs = 3
  /\ Len(Elems(1, sc.fld)) = 32


(***************************************************************************)
(* C2: a run of N encodings of one repeated string field ends with an      *)
(* array of length N whose views designate the N payloads, also when an    *)
(* element is handed to fastdecode_longstring.                             *)
(***************************************************************************)
C2_StringRun ==
  (sc.fam = "strrun" /\ Terminal) =>
    /\ Finished
    /\ Strings(Elems(1, sc.fld)) = ExpectedStrs


(***************************************************************************)
(* C3: a repeated varint field decodes to the same array whether the wire  *)
(* encoding is packed or unpacked and whether its slot holds the packed or *)
(* the unpacked parser: the mismatched combinations go through the flip    *)
(* and give the values the matching ones give.                             *)
(***************************************************************************)
Flipped == (sc.wire = "packed") # sc.lay.packed

C3_VarintFlip ==
  (sc.fam = "numrun" /\ sc.lay.fn = "varint" /\ Terminal) =>
    /\ Finished
    /\ Elems(1, sc.fld) = ExpectedNums

C3_Witness ==
  /\ sc.fam = "numrun" /\ sc.lay.fn = "varint" /\ Flipped /\ pc = "done"
  /\ sc.n = 3 /\ sc.lay.valbytes = 4 /\ ~sc.lay.zigzag
  /\ sc.input = <<10, 6, 3, 142, 2, 158, 167, 5>>
  /\ Elems(1, 1) = <<NumVal(<<3, 0, 0, 0>>), NumVal(<<14, 1, 0, 0>>),
                     NumVal(<<158, 83, 1, 0>>)>>

(***************************************************************************)
(* C4.  A repeated fixed-width field that arrives in the       *)
(* encoding its table slot does not expect is handed by the flip to the    *)
(* fast parser of the other encoding, and the decode finishes on the fast  *)
(* path with the same array contents as the native encoding gives.         *)
(***************************************************************************)
C4_FixedFlipHandOff ==
  (sc.fam = "numrun" /\ sc.lay.fn = "fixed" /\ Flipped /\ Terminal) =>
    /\ pc = "done"
    /\ Elems(1, sc.fld) = ExpectedNums

(***************************************************************************)
(* C5.  A delimited region entered on the fast path leaves limit_ptr and   *)
(* limit as they were at entry, whatever the callback returned; and        *)
(* limit_ptr = end + min(0, limit) holds when the callback is entered and  *)
(* when the delimited region has been left.                                *)
(***************************************************************************)
LimitInvariant(l) == l.limit_ptr = l.end + Min(0, l.limit)

C5_DelimitedLimits ==
  /\ obs.delim.path = "fast" =>
       /\ obs.delim.exit.limit_ptr = obs.delim.entry.limit_ptr
       /\ obs.delim.exit.limit = obs.delim.entry.limit
  /\ obs.delim.path # "none" => LimitInvariant(obs.delim.exit)
  /\ obs.cb.path # "none" => LimitInvariant(obs.cb.at)

\* A fast-path region whose callback moved the limit and returned NULL.
C5_Witness ==
  /\ obs.delim.path = "fast"
  /\ obs.delim.null
  /\ obs.cb.path = "fast"
  /\ obs.cb.at.limit # obs.delim.entry.limit
  /\ obs.delim.exit.limit = obs.delim.entry.limit

(***************************************************************************)
(* C6.  With the depth counter initialised to D, an input whose            *)
(* sub-messages nest more than D levels deep ends in the error return; a   *)
(* sub-message parser whose decrement brings depth to zero fails at once,  *)
(* having neither allocated its sub-message nor entered it.                *)
(***************************************************************************)
C6_RecursionLimit ==
  /\ d.depth = 0 => pc = "err" /\ Len(stack) = sc.depth - 1
                      /\ newmsgs = sc.depth - 1
  /\ (sc.fam = "nest" /\ sc.n > sc.depth /\ Terminal) => pc = "err"

C6_Witness ==
  /\ sc.fam = "nest" /\ sc.depth = MaxInitDepth /\ sc.n = MaxInitDepth + 1
  /\ pc = "err" /\ d.depth = 0 /\ newmsgs = MaxInitDepth - 1

(***************************************************************************)
(* C7 (as stated).  depth never goes below zero, and at every exit of a    *)
(* sub-message parser, the error return included, depth is what it was     *)
(* when the parser was entered.                                            *)
(***************************************************************************)
C7_DepthRestoredAlways ==
  /\ d.depth >= 0
  /\ obs.sub.how # "none" => obs.sub.exit = obs.sub.entry

(***************************************************************************)
(* C7 (amended).  depth never goes below zero; at every exit of a          *)
(* sub-message parser other than the error return depth is what it was at  *)
(* entry, so outside the error return depth is the initial depth minus the *)
(* number of sub-messages being parsed; the error return leaves depth one  *)
(* below its value at entry.  A decode that has used the result of a       *)
(* failed allocation (C16) has no defined depth.                           *)
(***************************************************************************)
C7_DepthRestored ==
  /\ d.depth >= 0
  /\ obs.sub.how \notin {"none", "err"} => obs.sub.exit = obs.sub.entry
  /\ obs.sub.how = "err" => obs.sub.exit = obs.sub.entry - 1
  /\ (~wild /\ pc \in {"dispatch", "parser", "subret", "done", "generic"}) =>
       d.depth = sc.depth - Len(stack)

\* Two sibling sub-messages have been parsed and depth is the initial one.
C7_Witness ==
  /\ sc.fam = "nest" /\ sc.aux[1] = 2 /\ sc.n = 2 /\ sc.depth = MaxInitDepth
  /\ pc = "done"
  /\ obs.sub.how = "atlimit"
  /\ obs.sub.exit = MaxInitDepth
  /\ newmsgs >= 2

(***************************************************************************)
(* The whole decode as a function, and what a caller can see of its result *)
(***************************************************************************)
RECURSIVE Run(_)
Run(s) ==
  IF s.pc \in {"done", "err", "ub"} \/ (s.pc = "generic" /\ ~AtEndGroup(s))
    THEN s
    ELSE Run(StepOf(s))

OffsetSeq == <<4, 8, 16, 24, 40, 48, 56, 64, 80, 88, 96, 104, 120>>
MaxView == 4096

\* A value with everything it refers to, as a sequence of numbers: strings
\* by their bytes, arrays by their committed elements, messages by their
\* hasbits and fields.
RECURSIVE Canon(_, _)
Canon(s, v) ==
  CASE v.k = "num" -> <<1, Len(v.b)>> \o v.b
    [] v.k = "str" ->
         IF v.n < 0 \/ v.n > MaxView THEN <<2, v.n, v.a>>
         ELSE <<2, v.n>> \o MemBytes(s, v.a, v.n)
    [] v.k = "arr" ->
         LET a == s.arrs[v.a] IN
         <<3, a.len>> \o Concat([i \in 1..Min(a.len, Len(a.data)) |->
                                   Canon(s, a.data[i])])
    [] v.k = "msg" ->
         LET m == s.msgs[v.a] IN
         <<4>> \o [b \in 1..32 |-> IF (b - 1) \in m.has THEN 1 ELSE 0]
               \o Concat([j \in 1..Len(OffsetSeq) |->
                            Canon(s, m.f[OffsetSeq[j]])])
    [] v.k = "uninit" -> <<9>>
    [] OTHER -> <<0>>

\* What the decode of the top-level message delivered: success with the
\* message, error, the hand-over to the generic decoder with the message so
\* far and the position, or undefined behaviour.
Outcome(s) ==
  CASE s.oob \/ s.wild -> <<-1>>
    [] s.pc = "err" -> <<2>>
    [] s.pc = "generic" -> <<3, s.ptr>> \o Canon(s, MsgVal(1))
    [] OTHER -> <<1>> \o Canon(s, MsgVal(1))

(***************************************************************************)
(* C8.  A decode with aliasing ends as the decode of the same input        *)
(* without aliasing does: both succeed or both fail, and on success every  *)
(* string field has the same length and the same bytes.                    *)
(***************************************************************************)
C8_AliasCopySame ==
  (sc.alias /\ Terminal) =>
    Outcome(Cur) = Outcome(Run(DecodeState(sc.input, FALSE, sc.depth, sc.lay,
                                           sc.arena_has)))

(***************************************************************************)
(* C9.  Every byte the dispatch core and the parsers read lies in the      *)
(* input buffer or the patch buffer that stands for its end: no read       *)
(* before the buffer, past end + 16 or through a NULL pointer.             *)
(***************************************************************************)
C9_ReadsInBounds == ~oob

(***************************************************************************)
(* C10.  A length prefix of five bytes whose fifth byte exceeds 7 makes    *)
(* the parser that reads it end in the error return, without using the     *)
(* pointer or the size of the failed reader.                               *)
(***************************************************************************)
MalformedLength == sc.fam = "badlen" /\ sc.aux[2] >= 8

C10_ReaderResultChecked ==
  (MalformedLength /\ pc \in {"done", "err", "generic", "crash", "ub"}) =>
    pc = "err" /\ ~oob /\ ~wild

(***************************************************************************)
(* C11 (as stated).  The presence bits the parsers have accumulated are in *)
(* the presence word of the message whenever a repeated-field array is     *)
(* fetched or allocated and whenever a sub-message is entered, and when    *)
(* dispatch finds the scope finished; the generic fallback is handed the   *)
(* hasbits the parser was called with; and a scope decoded with success    *)
(* has the presence bit of every singular field parsed in it.              *)
(***************************************************************************)
\* No undefined behaviour has occurred in the decode.
Defined == ~oob /\ ~wild

ScopePresenceComplete ==
  /\ (pc = "subret" /\ ptr # NULL) => PendingBits(Cur, msg) = {}
  /\ (pc = "done" /\ Defined) =>
       \A m \in 1..Len(msgs) : PendingBits(Cur, m) = {}

C11_HasbitsFlushedBeforeEntry ==
  /\ obs.hb.array.seen => obs.hb.array.pending = {}
  /\ obs.hb.submsg.seen => obs.hb.submsg.pending = {}
  /\ obs.hb.scope.seen => obs.hb.scope.pending = {}
  /\ pc = "generic" => hasbits = obs.hb.passed
  /\ ScopePresenceComplete

(***************************************************************************)
(* C11 (amended).  The bits are in the presence word when                  *)
(* fastdecode_getfield fetches or allocates the array of a repeated field, *)
(* when a singular or repeated sub-message is entered and when dispatch    *)
(* finds the scope finished.  The packed fixed parser fetches its array,   *)
(* and a oneof sub-message parser enters its sub-message, with the pending *)
(* bits still held in the local hasbits, which go to the next dispatch.    *)
(* The generic fallback is handed the hasbits the parser was called with,  *)
(* and a scope decoded with success has the presence bit of every singular *)
(* field parsed in it.                                                     *)
(***************************************************************************)
C11_HasbitsFlushed ==
  /\ obs.hb.array.seen =>
       IF obs.hb.array.card = "r" THEN obs.hb.array.pending = {}
       ELSE obs.hb.array.pending \subseteq obs.hb.array.held
  /\ obs.hb.submsg.seen =>
       IF obs.hb.submsg.card \in {"s", "r"} THEN obs.hb.submsg.pending = {}
       ELSE obs.hb.submsg.pending \subseteq obs.hb.submsg.held
  /\ obs.hb.scope.seen => obs.hb.scope.pending = {}
  /\ pc = "generic" => hasbits = obs.hb.passed
  /\ ScopePresenceComplete

\* A decode that entered a oneof sub-message with bit 0 pending has ended
\* with both singular fields present.
C11_Witness ==
  /\ sc.fam = "presence" /\ sc.fld = 8 /\ sc.n = 1 /\ pc = "done"
  /\ obs.hb.submsg.seen /\ obs.hb.submsg.card = "o"
  /\ obs.hb.submsg.pending = {0}
  /\ msgs[1].has = {0, 1}
  /\ msgs[2].has = {0}

(***************************************************************************)
(* C12.  Dispatch on a tag selects the fasttable slot numbered by bits 3   *)
(* to 7 of the first tag byte and calls the parser of the slot with data = *)
(* field_data XOR the two bytes at ptr.  For the well-formed one-byte or   *)
(* two-byte tag of a field of the layout the slot is the field's own and   *)
(* the low tagbytes bytes of data are zero; for any other tag that selects *)
(* the slot of a field they are not zero.                                  *)
(***************************************************************************)
\* The wire type the slot of field f of the layout expects.
LayoutWT(lay, f) ==
  IF f \in {1, 16} THEN NumWT(lay.fn, RepCard(lay), lay.valbytes)
  ELSE IF f \in {2, 7, 20} THEN NumWT(lay.fn, "s", lay.valbytes)
  ELSE WT_DELIMITED

\* The bytes at ptr begin with the encoded tag of field f of the layout.
TagIsOf(tag, lay, f) ==
  LET enc == EncTag(f, LayoutWT(lay, f)) IN
  IF Len(enc) = 1 THEN (tag % 256) = enc[1]
  ELSE (tag % 256) = enc[1] /\ (tag \div 256) = enc[2]

LowTagBytesZero(lo, tagbytes) ==
  IF tagbytes = 1 THEN (lo % 256) = 0 ELSE (lo % 65536) = 0

C12_DispatchSelectsSlot ==
  obs.disp.seen =>
    LET tag == obs.disp.tag
        idx == ((tag % 256) \div 8) % 32
        slot == FastTable(sc.lay, idx)
    IN /\ obs.disp.parser = slot.parser
       /\ obs.disp.lo = BitXor(slot.data.lo, tag, 16)
       /\ \A f \in FastFields :
            TagIsOf(tag, sc.lay, f) =>
              /\ idx = f
              /\ LowTagBytesZero(obs.disp.lo, TagBytesOf(f))
       /\ (idx \in FastFields /\ ~TagIsOf(tag, sc.lay, idx)) =>
            ~LowTagBytesZero(obs.disp.lo, TagBytesOf(idx))

\* The two-byte tag of field 17 has selected its slot and a string has been
\* decoded from it.
C12_Witness ==
  /\ obs.disp.seen /\ obs.disp.tag = 256 + 138
  /\ obs.disp.parser.fn = "string" /\ obs.disp.parser.tagbytes = 2
  /\ obs.disp.lo = 0
  /\ pc = "parser" /\ data.lo = 0 /\ data.ofs = 88

(***************************************************************************)
(* C13.  A specialised parser called with a tag that fails its tag check   *)
(* (for a repeated numeric parser: that fails the check after the flip as  *)
(* well) hands the field to the generic decoder with the same ptr, msg and *)
(* hasbits and with data = 0; the step consumes no byte, writes no         *)
(* message, presence word, oneof case or array, allocates nothing, leaves  *)
(* depth and the limits as they were, and is not an error.                 *)
(***************************************************************************)
TagCheckFails ==
  /\ ~fastdecode_checktag(data, parser.tagbytes)
  /\ ~(/\ parser.fn \in {"varint", "fixed"}
       /\ parser.card \in {"r", "p"}
       /\ fastdecode_checktag(fastdecode_flippacked(data), parser.tagbytes))

SpecialisedParser ==
  pc = "parser" /\ parser.fn \in {"varint", "fixed", "string", "submsg"}

C13_MismatchToGeneric ==
  [][(SpecialisedParser /\ TagCheckFails) =>
       /\ pc' = "generic"
       /\ data' = FieldData(0, 0, 0, 0, 0)
       /\ UNCHANGED <<buf, patch, d, arena, amem, msgs, arrs, ptr, msg,
                      hasbits, stack, layout, oob, wild, allocs, newmsgs>>]_vars

\* The sub-message parser of field 5, called with bit 0 pending on a tag of
\* wire type 0, has handed over to the generic decoder.
C13_Witness ==
  /\ pc = "generic" /\ parser.fn = "submsg" /\ obs.sub.how = "generic"
  /\ obs.disp.tag % 256 = 40
  /\ hasbits = {0} /\ msgs[1].has = {} /\ d.depth = sc.depth
  /\ newmsgs = 0 /\ allocs = 0 /\ data.lo = 0

(***************************************************************************)
(* C14.  Decoding a singular varint field leaves at the offset of the      *)
(* field valbytes bytes holding the munged value of its last occurrence    *)
(* (bool: 1 for a non-zero varint, else 0; zigzag: (n >> 1) XOR -(n & 1)   *)
(* on 32 or 64 bits; otherwise the varint truncated to valbytes), sets the *)
(* presence bit of the field and leaves every other field as it was.       *)
(* The tables give, for each value of SingVals, the bytes each type is to  *)
(* hold, computed from this definition.                                    *)
(***************************************************************************)
Stored_b1 ==
  << <<1>>, <<1>>, <<1>>, <<0>>, <<1>>, <<1>>, <<1>>, <<1>>, <<1>>, <<1>>,
     <<1>>, <<1>>, <<1>> >>

Stored_v4 ==
  << <<3, 0, 0, 0>>, <<14, 1, 0, 0>>, <<158, 83, 1, 0>>, <<0, 0, 0, 0>>,
     <<255, 255, 255, 255>>, <<127, 0, 0, 0>>, <<128, 0, 0, 0>>,
     <<5, 0, 0, 0>>, <<255, 255, 255, 127>>, <<254, 255, 255, 255>>,
     <<0, 0, 0, 0>>, <<1, 0, 0, 0>>, <<150, 0, 0, 0>> >>

Stored_v8 ==
  << <<3, 0, 0, 0, 0, 0, 0, 0>>, <<14, 1, 0, 0, 0, 0, 0, 0>>,
     <<158, 83, 1, 0, 0, 0, 0, 0>>, <<0, 0, 0, 0, 0, 0, 0, 0>>,
     <<255, 255, 255, 255, 255, 255, 255, 255>>,
     <<127, 0, 0, 0, 0, 0, 0, 0>>, <<128, 0, 0, 0, 0, 0, 0, 0>>,
     <<5, 0, 0, 0, 1, 0, 0, 0>>, <<255, 255, 255, 127, 0, 0, 0, 0>>,
     <<254, 255, 255, 255, 255, 255, 255, 255>>,
     <<0, 0, 0, 0, 0, 0, 0, 128>>, <<1, 0, 0, 0, 0, 0, 0, 0>>,
     <<150, 0, 0, 0, 0, 0, 0, 0>> >>

Stored_z4 ==
  << <<254, 255, 255, 255>>, <<135, 0, 0, 0>>, <<207, 169, 0, 0>>,
     <<0, 0, 0, 0>>, <<0, 0, 0, 128>>, <<192, 255, 255, 255>>,
     <<64, 0, 0, 0>>, <<253, 255, 255, 255>>, <<0, 0, 0, 192>>,
     <<255, 255, 255, 127>>, <<0, 0, 0, 0>>, <<255, 255, 255, 255>>,
     <<75, 0, 0, 0>> >>

Stored_z8 ==
  << <<254, 255, 255, 255, 255, 255, 255, 255>>,
     <<135, 0, 0, 0, 0, 0, 0, 0>>, <<207, 169, 0, 0, 0, 0, 0, 0>>,
     <<0, 0, 0, 0, 0, 0, 0, 0>>, <<0, 0, 0, 0, 0, 0, 0, 128>>,
     <<192, 255, 255, 255, 255, 255, 255, 255>>,
     <<64, 0, 0, 0, 0, 0, 0, 0>>,
     <<253, 255, 255, 127, 255, 255, 255, 255>>,
     <<0, 0, 0, 192, 255, 255, 255, 255>>,
     <<255, 255, 255, 255, 255, 255, 255, 127>>,
     <<0, 0, 0, 0, 0, 0, 0, 64>>,
     <<255, 255, 255, 255, 255, 255, 255, 255>>,
     <<75, 0, 0, 0, 0, 0, 0, 0>> >>

SingStored(lay, i) ==
  LET k == ((i - 1) % Len(SingVals)) + 1 IN
  CASE lay.valbytes = 1 -> Stored_b1[k]
    [] lay.valbytes = 4 /\ ~lay.zigzag -> Stored_v4[k]
    [] lay.valbytes = 8 /\ ~lay.zigzag -> Stored_v8[k]
    [] lay.valbytes = 4 /\ lay.zigzag -> Stored_z4[k]
    [] OTHER -> Stored_z8[k]

C14_SingularVarint ==
  (sc.fam = "sing" /\ Terminal) =>
    LET slot == FastTable(sc.lay, sc.fld) IN
    /\ pc = "done"
    /\ msgs[1].f[slot.data.ofs] =
         NumVal(SingStored(sc.lay, sc.aux[1] + sc.n - 1))
    /\ msgs[1].has = {slot.data.hb}
    /\ \A o \in FieldOffsets \ {slot.data.ofs} : msgs[1].f[o] = ZeroVal
    /\ Len(msgs) = 1 /\ arrs = <<>> /\ allocs = 0

\* Input 10 96 01 on the int32 field 2 has left 150 and presence bit 0; and
\* a zigzag field that occurred three times holds its last value.
C14_Witness ==
  \/ /\ sc.fam = "sing" /\ pc = "done" /\ sc.input = <<16, 150, 1>>
     /\ sc.lay = V4
     /\ msgs[1].f[16] = NumVal(<<150, 0, 0, 0>>) /\ msgs[1].has = {0}
  \/ /\ sc.fam = "sing" /\ pc = "done" /\ sc.n = 3 /\ sc.aux[1] = 1
     /\ sc.fld = 20 /\ sc.lay = Lay("varint", 4, TRUE, FALSE)
     /\ msgs[1].f[120] = NumVal(<<207, 169, 0, 0>>) /\ msgs[1].has = {4}

(***************************************************************************)
(* C15.  A string view written by a string parser points into the input    *)
(* buffer only if d->alias was true when it was written; a view written    *)
(* with alias false points into arena memory that holds a copy of the      *)
(* payload of the field.  In alias mode a short string that passes the     *)
(* bounds check consumes no arena bytes, and its view is the address of    *)
(* the first payload byte with the size of the string.                     *)
(***************************************************************************)
\* The length prefix at address a decoded as a base-128 varint of up to five
\* bytes: its value (len, -1 when the fifth byte is above 7) and its width.
RECURSIVE RefLength(_, _, _, _)
RefLength(a, i, acc, scale) ==
  LET b == Mem(Cur, a + i) IN
  IF i = 4 THEN [len |-> IF b >= 8 THEN -1 ELSE acc + b * scale, width |-> 5]
  ELSE IF b < 128 THEN [len |-> acc + b * scale, width |-> i + 1]
  ELSE RefLength(a, i + 1, acc + (b - 128) * scale, scale * 128)

InArena(a) == a >= ArenaBase

C15_ViewFollowsAlias ==
  (obs.view.seen /\ Defined) =>
    LET e == obs.view
        v == e.v
        lp == e.at + e.tagbytes
        rl == RefLength(lp, 0, 0, 1)
    IN /\ (InInput(Cur, v.a) \/ InPatch(Cur, v.a)) => e.alias
       /\ ~e.alias =>
            /\ InArena(v.a)
            /\ v.n = rl.len
            /\ MemBytes(Cur, v.a, v.n) = MemBytes(Cur, lp + rl.width, rl.len)
       /\ (e.alias /\ e.path = "alias") =>
            /\ e.arena1 = e.arena0
            /\ v.a = lp + 1
            /\ v.n = Mem(Cur, lp)

(***************************************************************************)
(* C16.  When an arena allocation requested by a parser returns NULL       *)
(* (array creation, array growth, sub-message allocation, string           *)
(* allocation) the decode ends in the error return, and no access is made  *)
(* through the NULL pointer.                                               *)
(***************************************************************************)
C16_AllocFailureIsError == arena.failed => (pc = "err" /\ ~wild)

(***************************************************************************)
(* C17.  In copy mode a string of at most 15 - tagbytes bytes, decoded     *)
(* with 16 free bytes in the arena, moves the arena cursor by 16 and gets  *)
(* the view (old cursor + tagbytes + 1, size) whose bytes are the payload; *)
(* a string of up to 32, 64, 128 bytes moves the cursor by 32, 64, 128     *)
(* when min(free bytes, end - ptr + 16) is at least that width; every      *)
(* other string is handed to fastdecode_longstring with ptr at the length  *)
(* byte and the cursor where it was.  Stated for a singular string field   *)
(* that is the first field of the input, with the size of the string       *)
(* taken from its length prefix.                                           *)
(***************************************************************************)
\* The number of bytes the copy takes from the arena for a string of n bytes
\* (0: the long-string routine), as the claim gives it.
CopyWidth(n, tagbytes, arena_has, common_has) ==
  IF n <= 15 - tagbytes THEN (IF arena_has >= 16 THEN 16 ELSE 0)
  ELSE IF n <= 32 THEN (IF common_has >= 32 THEN 32 ELSE 0)
  ELSE IF n <= 64 THEN (IF common_has >= 64 THEN 64 ELSE 0)
  ELSE IF n <= 128 THEN (IF common_has >= 128 THEN 128 ELSE 0)
  ELSE 0

C17_CopyWidths ==
  (sc.fam \in {"strone", "bigstr"} /\ obs.view.seen /\ ~obs.view.alias
     /\ Defined) =>
    LET e == obs.view
        tb == TagBytesOf(sc.fld)
        tag0 == InitState(sc).ptr
        lp == tag0 + tb
        rl == RefLength(lp, 0, 0, 1)
        common_has == Min(sc.arena_has, (InitState(sc).d.end - (lp + 1)) + 16)
        width == CopyWidth(rl.len, tb, sc.arena_has, common_has)
    IN IF width > 0
         THEN /\ e.path = "copy"
              /\ e.arena0 = ArenaBase /\ e.arena1 = ArenaBase + width
              /\ width = 16 =>
                   /\ e.v.a = ArenaBase + tb + 1 /\ e.v.n = rl.len
                   /\ MemBytes(Cur, e.v.a, e.v.n)
                        = MemBytes(Cur, lp + rl.width, rl.len)
         ELSE /\ e.path = "long"
              /\ e.at = tag0
              /\ e.arena0 = ArenaBase

(***************************************************************************)
(* C18.  fastdecode_delimited calls its callback only for a region inside  *)
(* the enclosing scope: when ptr - end + len > limit (len the decoded      *)
(* length, ptr just past the length prefix) or the prefix is oversized, it *)
(* returns NULL without calling the callback and leaves limit, limit_ptr   *)
(* and end as they were; on the fast path the callback's limit_ptr is not  *)
(* above the enclosing limit_ptr.                                          *)
(***************************************************************************)
\* The length prefix read at the last entry of fastdecode_delimited, decoded
\* from memory, and whether its region leaves the enclosing scope.
EnterPrefix == RefLength(obs.enter.ptr0, 0, 0, 1)

RegionOutside ==
  LET e == obs.enter
      p == e.ptr0 + EnterPrefix.width
  IN \/ EnterPrefix.len = -1
     \/ EnterPrefix.len > e.entry.limit - (p - e.entry.end)

C18_RegionInsideScope ==
  (obs.enter.seen /\ Defined) =>
    /\ obs.enter.called => ~RegionOutside
    /\ RegionOutside =>
         /\ ~obs.enter.called
         /\ pc = "err"
         /\ [limit_ptr |-> d.limit_ptr, limit |-> d.limit, end |-> d.end]
              = obs.enter.entry
    /\ (obs.enter.called /\ obs.cb.path = "fast") =>
         obs.cb.at.limit_ptr <= obs.enter.entry.limit_ptr

C18_Witness ==
  /\ obs.enter.seen /\ ~obs.enter.called
  /\ EnterPrefix.len >= 0
  /\ RegionOutside
  /\ pc = "err"
  /\ d.limit = obs.enter.entry.limit
  /\ d.limit_ptr = obs.enter.entry.limit_ptr

(***************************************************************************)
(* C19.  fastdecode_varint64 returns, for a varint of 1 to 10 bytes whose  *)
(* tenth byte is 0 or 1, the pointer just past it and the base-128 value   *)
(* (the low seven bits of byte i at bit 7i) modulo 2^64; it returns NULL   *)
(* exactly when nine bytes have the continuation bit and the tenth is      *)
(* above 1.  fastdecode_longsize returns, for a prefix of 2 to 5 bytes,    *)
(* the pointer past it and its base-128 value, and fails exactly when the  *)
(* fifth byte is 8 or more, so that a decoded length is never negative.    *)
(***************************************************************************)
\* The varint at address a read bit by bit: its width (0 when ten bytes have
\* the continuation bit) and the eight bytes of its value.
VarintWidth(a) ==
  IF \A i \in 0..9 : Mem(Cur, a + i) >= 128 THEN 0
  ELSE CHOOSE w \in 1..10 :
         /\ Mem(Cur, a + w - 1) < 128
         /\ \A i \in 0..(w - 2) : Mem(Cur, a + i) >= 128

VarintBit(a, w, k) ==
  IF (k \div 7) < w THEN (Mem(Cur, a + (k \div 7)) \div (2 ^ (k % 7))) % 2
  ELSE 0

VarintValue(a, w) ==
  [m \in 1..8 |->
     VarintBit(a, w, 8 * m - 8) + 2 * VarintBit(a, w, 8 * m - 7)
       + 4 * VarintBit(a, w, 8 * m - 6) + 8 * VarintBit(a, w, 8 * m - 5)
       + 16 * VarintBit(a, w, 8 * m - 4) + 32 * VarintBit(a, w, 8 * m - 3)
       + 64 * VarintBit(a, w, 8 * m - 2) + 128 * VarintBit(a, w, 8 * m - 1)]

Varint64Standard ==
  obs.rd64.seen =>
    LET e == obs.rd64
        w == VarintWidth(e.at)
    IN /\ (e.ptr = NULL) <=>
            /\ \A i \in 0..8 : Mem(Cur, e.at + i) >= 128
            /\ Mem(Cur, e.at + 9) > 1
       /\ e.ptr # NULL =>
            /\ e.ptr = e.at + w
            /\ e.val = VarintValue(e.at, w)

LongsizeStandard ==
  obs.rdlen.seen =>
    LET e == obs.rdlen
        rl == RefLength(e.at, 0, 0, 1)
    IN /\ Mem(Cur, e.at) >= 128
       /\ (e.ptr = NULL) <=> (rl.width = 5 /\ Mem(Cur, e.at + 4) >= 8)
       /\ e.ptr # NULL =>
            /\ e.ptr = e.at + rl.width
            /\ e.size = rl.len
            /\ e.size >= 0

C19_ReadersStandard == Varint64Standard /\ LongsizeStandard

C19_Witness ==
  /\ sc.fam = "reader" /\ sc.n = 10 /\ sc.aux = <<255, 0>>
  /\ sc.lay.valbytes = 8
  /\ obs.rd64.seen /\ obs.rd64.ptr = obs.rd64.at + 10
  /\ obs.rd64.val = <<255, 255, 255, 255, 255, 255, 255, 127>>
  /\ pc = "done"

(***************************************************************************)
(* C20.  In a repeated string run of the alias family, when the            *)
(* end-of-buffer check between two elements clears d->alias and the next   *)
(* tag is the same field, the parser commits the array's len to the number *)
(* of elements decoded so far and dispatches on that tag; the remaining    *)
(* elements are decoded by the copy family and appended after the          *)
(* committed ones, none being lost or overwritten.                         *)
(***************************************************************************)
\* The offset in the input of the pointer handed to the dispatch: the patch
\* buffer holds the last 16 bytes of the input.
HopOffset == (Len(sc.input) - 16) + (obs.hop.ptr - PatchBase)

\* The number of elements of the run encoded before that offset (0: none).
HopCount ==
  IF \E j \in 1..sc.n :
       Len(StrRunInput(sc.fld, j, sc.aux[1], "end")) = HopOffset
    THEN CHOOSE j \in 1..sc.n :
           Len(StrRunInput(sc.fld, j, sc.aux[1], "end")) = HopOffset
    ELSE 0

HopCommitted ==
  /\ HopCount >= 1 /\ HopCount < sc.n
  /\ obs.hop.len = HopCount
  /\ LET t == EncTag(sc.fld, WT_DELIMITED)
     IN IF Len(t) = 1 THEN (obs.hop.tag % 256) = t[1]
        ELSE obs.hop.tag = t[1] + 256 * t[2]
  /\ ptr = obs.hop.ptr =>
       /\ pc = "parser"
       /\ parser.fn \in {"string", "copystring"} /\ parser.card = "r"
       /\ arrs[obs.hop.arr].len = HopCount

HopAppended ==
  /\ Finished
  /\ Strings(Elems(1, sc.fld)) = ExpectedStrs
  /\ \A i \in 1..Len(Elems(1, sc.fld)) :
       LET v == Elems(1, sc.fld)[i]
       IN IF i <= HopCount THEN InInput(Cur, v.a) ELSE InArena(v.a)

C20_HopToCopy ==
  (sc.fam = "strrun" /\ obs.hop.seen /\ Defined) =>
    /\ HopCommitted
    /\ Terminal => HopAppended

(***************************************************************************)
(* C21.  A sub-message parser allocates a new zero-initialised message     *)
(* exactly when the field is repeated (one message per element of the run) *)
(* or the destination slot is null: a later occurrence of a singular or    *)
(* oneof sub-message field decodes into the message of the first one, so   *)
(* that the fields of all occurrences are in that one message.  When a     *)
(* sub-scope returns with d->end_group non-zero the parser returns the     *)
(* error sentinel.                                                         *)
(***************************************************************************)
\* Message m holds the fields of the occurrences I of SubBody and is zero
\* everywhere else.
HoldsBodies(m, I) ==
  LET num == 1 \in I
      str == 2 \in I
      late == \E i \in I : i >= 3
  IN /\ msgs[m].has = {b \in {0, 1, 4} :
                         (b = 0 /\ num) \/ (b = 1 /\ str) \/ (b = 4 /\ late)}
     /\ msgs[m].f[16] = IF num THEN NumVal(<<5, 0, 0, 0>>) ELSE ZeroVal
     /\ IF str
          THEN /\ msgs[m].f[24].k = "str"
               /\ ViewBytes(msgs[m].f[24]) = PayloadFrom(2, 0, 2)
          ELSE msgs[m].f[24] = ZeroVal
     /\ msgs[m].f[120] = IF late THEN NumVal(<<9, 0, 0, 0>>) ELSE ZeroVal
     /\ \A o \in FieldOffsets \ {16, 24, 120} : msgs[m].f[o] = ZeroVal

SubRunDecoded ==
  IF sc.fld \in {6, 18}
    THEN /\ newmsgs = sc.n
         /\ Elems(1, sc.fld) = [i \in 1..sc.n |-> MsgVal(i + 1)]
         /\ \A i \in 1..sc.n : HoldsBodies(i + 1, {i})
    ELSE /\ newmsgs = 1
         /\ msgs[1].f[IF sc.fld = 5 THEN 48 ELSE 64] = MsgVal(2)
         /\ HoldsBodies(2, 1..sc.n)

C21_SubmsgAllocation ==
  /\ (sc.fam = "subrun" /\ Terminal) => (pc = "done" /\ SubRunDecoded)
  /\ d.end_group # 0 => pc \in {"subret", "err"}
  /\ (d.end_group # 0 /\ pc = "err") => obs.sub.how = "err"

\* Three occurrences of the singular field 5 have been decoded into one
\* message.
C21_Witness ==
  /\ sc.fam = "subrun" /\ sc.fld = 5 /\ sc.n = 3 /\ pc = "done"
  /\ newmsgs = 1 /\ Len(msgs) = 2
  /\ msgs[2].has = {0, 1, 4}
  /\ msgs[2].f[16] = NumVal(<<5, 0, 0, 0>>)
  /\ msgs[2].f[120] = NumVal(<<9, 0, 0, 0>>)

(***************************************************************************)
(* C22 (as stated).  The packed fixed parser returns the error sentinel,   *)
(* writing nothing to the array, whenever the payload length is not a      *)
(* multiple of valbytes or the payload extends past limit_ptr; otherwise   *)
(* it sets the array's len to size / valbytes with the elements equal to   *)
(* the payload's consecutive little-endian groups of valbytes bytes, and   *)
(* continues dispatch at the first byte after the payload.                 *)
(***************************************************************************)
\* The packed fixed parser has been called with a tag that is its own.
PackedFixedEntry ==
  /\ pc = "parser" /\ parser.fn = "fixed" /\ parser.card = "p"
  /\ fastdecode_checktag(data, parser.tagbytes)

\* The length prefix behind the tag, read independently of the parser.
PackedPrefix == RefLength(ptr + parser.tagbytes, 0, 0, 1)

PackedPayload == ptr + parser.tagbytes + PackedPrefix.width

\* The length the parser goes on with after a malformed prefix (five bytes,
\* the fifth 8 or more): the low seven bits of the first four bytes, and
\* 2^28 for the continuation bit of the fourth, which no fifth byte cancels.
PackedRawLen ==
  LET a == ptr + parser.tagbytes
  IN (Mem(Cur, a) % 128) + (Mem(Cur, a + 1) % 128) * 128
       + (Mem(Cur, a + 2) % 128) * 16384
       + (Mem(Cur, a + 3) % 128) * 2097152 + 268435456

\* The error return, with nothing written.
PackedRejected ==
  /\ pc' = "err"
  /\ UNCHANGED <<msgs, arrs, amem, allocs>>

\* The payload of size bytes has been stored and dispatch continues behind
\* it.
PackedStored(size) ==
  LET vb == parser.valbytes
      slot == msgs'[msg].f[data.ofs]
  IN /\ pc' = "dispatch"
     /\ ptr' = PackedPayload + size
     /\ slot.k = "arr"
     /\ arrs'[slot.a].len = size \div vb
     /\ \A i \in 1..(size \div vb) :
          arrs'[slot.a].data[i] =
            NumVal(MemBytes(Cur, PackedPayload + (i - 1) * vb, vb))

\* The payload is to be rejected: it is not made of whole elements or ends
\* more than pad bytes behind limit_ptr.
PackedBad(size, pad) ==
  (size % parser.valbytes) # 0 \/ size > (d.limit_ptr + pad) - PackedPayload

\* The statement as it stands in the specification, for a length prefix
\* that is well formed.
PackedFixedStated ==
  (PackedFixedEntry /\ PackedPrefix.len >= 0) =>
    IF PackedBad(PackedPrefix.len, 0) THEN PackedRejected
    ELSE PackedStored(PackedPrefix.len)

C22_PackedFixedAtLimit == [][PackedFixedStated]_vars

(***************************************************************************)
(* C22.  With a well-formed length prefix the packed fixed parser returns  *)
(* the error sentinel, writing nothing to the array, whenever the payload  *)
(* length is not a multiple of valbytes or the payload ends more than 16   *)
(* bytes behind limit_ptr.  Otherwise, when the field has no array and one *)
(* cannot be allocated, it returns the error sentinel as well; when the    *)
(* field has an array that cannot be resized, the failure is ignored and   *)
(* the payload is copied past the end of the old buffer (undefined         *)
(* behaviour); in every other case it sets the array's len to size /       *)
(* valbytes with the elements equal to the payload's consecutive           *)
(* little-endian groups of valbytes bytes, and continues dispatch at the   *)
(* first byte after the payload, which may lie up to 16 bytes behind       *)
(* limit_ptr.  With a malformed length prefix it does not return the error *)
(* sentinel for the prefix: it goes on with a null payload pointer and the *)
(* length read so far, returns the error sentinel when that length is not  *)
(* a multiple of valbytes or when a new array cannot be allocated for it,  *)
(* and otherwise copies from the null pointer (undefined behaviour).       *)
(***************************************************************************)
\* The step of the parser on its own tag, in every case.
PackedFixedStep ==
  PackedFixedEntry =>
    LET fresh == msgs[msg].f[data.ofs].k # "arr" IN
    IF PackedPrefix.len < 0 THEN
      IF (PackedRawLen % parser.valbytes) # 0 THEN PackedRejected
      ELSE IF fresh /\ arena'.failed THEN PackedRejected
      ELSE pc' = "ub"
    ELSE IF PackedBad(PackedPrefix.len, Slop) THEN PackedRejected
    ELSE IF arena'.failed THEN
      IF fresh THEN PackedRejected ELSE pc' = "ub"
    ELSE PackedStored(PackedPrefix.len)

C22_PackedFixed == [][PackedFixedStep]_vars

\* A payload of 16 bytes that ends behind limit_ptr has been stored as four
\* elements and dispatch continues behind it.
C22_Witness ==
  /\ sc.fam = "pfixed" /\ sc.n = 1 /\ sc.fld = 1 /\ sc.lay.valbytes = 4
  /\ sc.aux = <<16, 24>>
  /\ pc = "dispatch" /\ ptr = InBase + 18 /\ ptr > d.limit_ptr
  /\ Len(Elems(1, 1)) = 4
  /\ Elems(1, 1)[1] = NumVal(SubSeq(sc.input, 3, 6))

(***************************************************************************)
(* C23.  The contents of a repeated field accumulate across occurrences    *)
(* within a scope: when the field holds k committed elements and occurs    *)
(* again (as a new unpacked run, a packed varint chunk or a packed fixed   *)
(* chunk of m elements), the first k elements are left unchanged and       *)
(* afterwards len = k + m with the new elements following in wire order.   *)
(***************************************************************************)
\* The second occurrence is in an encoding a fast parser of the field
\* decodes: that of the layout, or for a varint field the other one.
AccumFast ==
  sc.lay.fn = "varint" \/ (sc.wire = "packed") = sc.lay.packed

C23_Accumulation ==
  (sc.fam = "accum" /\ AccumFast /\ Terminal) =>
    /\ pc = "done"
    /\ Elems(1, sc.fld) =
         [i \in 1..(sc.n + sc.aux[1]) |-> NumVal(StoredNum(sc.lay, PoolVal(i)))]

(***************************************************************************)
(* C24.  A repeated numeric parser takes the flip-and-retry path only for  *)
(* an incoming tag of the field number of its slot whose wire type is the  *)
(* packed or unpacked counterpart of its own (LEN and VARINT, LEN and I32, *)
(* LEN and I64); a tag of any other wire type (3 or 7, say) is not         *)
(* consumed by a fast numeric parser and goes to the generic fallback.     *)
(***************************************************************************)
\* A repeated numeric parser has been called with a tag that is not its own.
NumericMismatch ==
  /\ pc = "parser" /\ parser.fn \in {"varint", "fixed"}
  /\ parser.card \in {"r", "p"}
  /\ ~fastdecode_checktag(data, parser.tagbytes)

\* The wire type of the tag at ptr, and the wire type of the other encoding
\* of the field of the parser.
IncomingWT == Mem(Cur, ptr) % 8

CounterpartWT ==
  IF parser.card = "p" THEN NumWT(parser.fn, "r", parser.valbytes)
  ELSE WT_DELIMITED

C24_FlipOnlyCounterpart ==
  [][(NumericMismatch /\ IncomingWT # CounterpartWT) =>
       /\ pc' = "generic"
       /\ UNCHANGED <<ptr, msgs, arrs>>]_vars

(***************************************************************************)
(* C25.  When a oneof sub-message field is decoded after a different       *)
(* member of the same oneof, stored at the same offset, the parser sets    *)
(* the oneof case to the number of the new field and decodes into a newly  *)
(* allocated sub-message; the bytes of the previous member are never used  *)
(* as a pointer to a sub-message.                                          *)
(***************************************************************************)
C25_OneofSubmsgFresh ==
  (sc.fam = "oneofswap" /\ Terminal) =>
    /\ pc = "done" /\ ~wild
    /\ msgs[1].f[CaseOfs] = NumVal(<<8, 0, 0, 0>>)
    /\ newmsgs = 1
    /\ msgs[1].f[64] = MsgVal(2)
    /\ msgs[2].f[16] = NumVal(StoredNum(sc.lay, IntBytes(5, 8)))

(***************************************************************************)
(* C26.  Every call of fastdecode_dispatch on a finite buffer terminates   *)
(* (the fallbacks being taken to terminate): a specialised parser either   *)
(* advances ptr by at least tagbytes + 1 before dispatch is entered again, *)
(* or hands the field to the generic decoder, or returns.  Before it does  *)
(* so a parser may hand the field once, with ptr as it is, to another      *)
(* parser function: a repeated numeric parser, after the flip, to the      *)
(* parser of the other encoding, which finds a tag that passes its check   *)
(* and does not flip back; the string parser without aliasing to the       *)
(* copying parser, which hands nothing back.                               *)
(***************************************************************************)
ParserCalled ==
  pc = "parser"
    /\ parser.fn \in {"varint", "fixed", "string", "copystring", "submsg"}

\* The call of another parser function on the same field.
HandOff ==
  \/ /\ parser.fn \in {"varint", "fixed"} /\ parser'.fn = parser.fn
     /\ ~fastdecode_checktag(data, parser.tagbytes)
     /\ fastdecode_checktag(data', parser'.tagbytes)
  \/ /\ parser.fn = "string" /\ parser'.fn = "copystring"
     /\ fastdecode_checktag(data, parser.tagbytes)
     /\ data' = data

ParserStep ==
  ParserCalled =>
    \/ /\ pc' \in {"dispatch", "parser"}
       /\ ptr' >= ptr + parser.tagbytes + 1
    \/ /\ pc' = "parser" /\ ptr' = ptr
       /\ HandOff
    \/ pc' \in {"generic", "done", "subret", "err", "ub"}

C26_DispatchTerminates == [][ParserStep]_vars /\ <>(~Running)

\* The same for the steps that read no malformed length prefix: it is after
\* fastdecode_longsize has returned NULL (C10) that a parser enters dispatch
\* with a pointer that is not behind the field.
MalformedPrefixRead == obs.rdlen.seen /\ obs.rdlen.ptr = NULL

TerminatesOnWellFormedLengths ==
  [][(~MalformedPrefixRead') => ParserStep]_vars /\ <>(~Running)

====
